---- MODULE Spec2Model ----
(***************************************************************************)
(* Model of the rsonpath main engine (crates/rsonpath-lib/src/engine/      *)
(* main.rs): the stackless executor driven by structural events of a JSON *)
(* byte buffer, for a compiled query automaton.                            *)
(*                                                                         *)
(* Byte offsets are 0-based as in the source; TLA+ sequences are 1-based,  *)
(* so At(i) reads bytes[i + 1].  A byte is a one-character string.         *)
(***************************************************************************)
EXTENDS Integers, Sequences, FiniteSets, TLC

VARIABLES
    bytes,        \* Executor::bytes: the input buffer (logical content; padding reads as NUL)
    tree,         \* the JSON value the buffer encodes (NoTree for non-JSON input,
                  \* Nested for the deeply nested documents); never read by the engine
    members,      \* the object members of that value: colon offset, key, ancestor keys; never read by the engine
    automaton,    \* MainEngine::automaton, immutable
    features,     \* the cfg(feature = ...) flags the engine was built with
    depth,        \* Executor::depth
    state,        \* Executor::state
    stack,        \* Executor::stack
    next_event,   \* Executor::next_event
    is_list,      \* Executor::is_list
    pos,          \* structural classifier: offset of the next unclassified byte
    colons_on,    \* structural classifier: colons enabled
    commas_on,    \* structural classifier: commas enabled
    result,       \* IndexResult: the offsets passed to report, in order
    outcome,      \* what run has returned: Running, Ok, or an EngineError with its offset
    suspended,    \* the runs of other threads on the same engine, each with its own
                  \* input, executor, classifier and result; empty when there is one run
    quote_classifier, \* the quote classifier block by block: the masks of the blocks
                  \* yielded and the two carries (the runs follow the classifiers by pos)
    structural_mask,  \* the structural classifier block by block: the structural bits
                  \* of the current block that are still to be yielded
    depth_classifier, \* the depth classifier block by block: the bracket kind counted,
                  \* the cursor in the current block and the depth there
    depth_benchmark,  \* the depth blocks of the benchmark crate under their test
    input         \* simdpath's Input: the length of the buffer Input::new has built

vars == <<bytes, tree, members, automaton, features, depth, state, stack,
          next_event, is_list, pos, colons_on, commas_on, result, outcome, suspended,
          quote_classifier, structural_mask, depth_classifier, depth_benchmark, input>>

-----------------------------------------------------------------------------
(* Bytes *)

QUOTE == "\""
BSLASH == "\\"
NUL == "NUL"
NL == "\n"

IsWhitespace(c) == c \in {" ", "\n", "\t", "\r", "\f"}

Q(label) == <<QUOTE>> \o label \o <<QUOTE>>

-----------------------------------------------------------------------------
(* JSON values and their encodings: the inputs of the model *)

MaxNodes == 3

La == <<"a">>
Lb == <<"b">>
Keys == {La, Lb}

Num1 == <<"1">>
StrTricky == <<QUOTE, BSLASH, QUOTE, "}", "]", ":", QUOTE>>
Scalars == {Num1}

Scalar(b) == [t |-> "scalar", b |-> b, k |-> <<>>, c |-> <<>>]
Arr(c) == [t |-> "array", b |-> <<>>, k |-> <<>>, c |-> c]
Obj(k, c) == [t |-> "object", b |-> <<>>, k |-> k, c |-> c]
NoTree == [t |-> "none", b |-> <<>>, k |-> <<>>, c |-> <<>>]

RECURSIVE Trees(_), Forests(_)
\* the JSON values with exactly n nodes
Trees(n) ==
    IF n = 1
    THEN {Scalar(b) : b \in Scalars} \cup {Arr(<<>>), Obj(<<>>, <<>>)}
    ELSE {Arr(f) : f \in Forests(n - 1)}
         \cup UNION {{Obj(ks, f) : ks \in [1..Len(f) -> Keys]} : f \in Forests(n - 1)}
\* the non-empty sequences of JSON values with n nodes in total
Forests(n) ==
    UNION {{<<t>> \o f : t \in Trees(j),
                         f \in (IF j = n THEN {<<>>} ELSE Forests(n - j))}
           : j \in 1..n}

Styles == {"compact", "spaced"}

RECURSIVE Indent(_)
Indent(level) == IF level = 0 THEN <<>> ELSE <<" ", " ">> \o Indent(level - 1)

AfterOpen(style, level) ==
    CASE style = "compact" -> <<>>
      [] style = "spaced" -> <<" ">>
      [] style = "pretty" -> <<NL>> \o Indent(level + 1)
BeforeColon(style) == IF style = "spaced" THEN <<" ">> ELSE <<>>
AfterColon(style) == IF style = "compact" THEN <<>> ELSE <<" ">>
BeforeComma(style) == IF style = "spaced" THEN <<" ">> ELSE <<>>
AfterComma(style, level) == AfterOpen(style, level)
BeforeClose(style, level) ==
    CASE style = "compact" -> <<>>
      [] style = "spaced" -> <<" ">>
      [] style = "pretty" -> <<NL>> \o Indent(level)

RECURSIVE Render(_, _, _, _, _), RenderChildren(_, _, _, _, _, _)
\* The encoding of value t placed at offset off, nested in members with keys
\* path: [b |-> its bytes, m |-> the members it holds].
Render(t, style, level, off, path) ==
    IF t.t = "scalar" THEN [b |-> t.b, m |-> {}]
    ELSE LET open == IF t.t = "array" THEN "[" ELSE "{"
             close == IF t.t = "array" THEN "]" ELSE "}"
         IN IF Len(t.c) = 0
            THEN [b |-> (IF style = "spaced" THEN <<open, " ", close>> ELSE <<open, close>>),
                  m |-> {}]
            ELSE LET head == <<open>> \o AfterOpen(style, level)
                     body == RenderChildren(t, 1, style, level, off + Len(head), path)
                 IN [b |-> head \o body.b \o BeforeClose(style, level) \o <<close>>,
                     m |-> body.m]
\* children i.. of container t, the first one placed at offset off
RenderChildren(t, i, style, level, off, path) ==
    LET pre == IF t.t = "object"
               THEN Q(t.k[i]) \o BeforeColon(style) \o <<":">> \o AfterColon(style)
               ELSE <<>>
        colon == off + Len(t.k[i]) + 2 + Len(BeforeColon(style))
        inner == IF t.t = "object" THEN Append(path, t.k[i]) ELSE path
        val == Render(t.c[i], style, level + 1, off + Len(pre), inner)
        here == IF t.t = "object"
                THEN {[colon |-> colon, key |-> t.k[i], path |-> path]}
                ELSE {}
        one == pre \o val.b
    IN IF i = Len(t.c)
       THEN [b |-> one, m |-> here \cup val.m]
       ELSE LET sep == BeforeComma(style) \o <<",">> \o AfterComma(style, level)
                rest == RenderChildren(t, i + 1, style, level, off + Len(one) + Len(sep), path)
            IN [b |-> one \o sep \o rest.b, m |-> here \cup val.m \cup rest.m]

\* A document: a value encoded in a style ("pretty" documents start and end with a newline).
Doc(t, style) ==
    LET lead == IF style = "pretty" THEN <<NL>> ELSE <<>>
        r == Render(t, style, 0, Len(lead), <<>>)
    IN [bytes |-> lead \o r.b \o lead, tree |-> t, members |-> r.m]

-----------------------------------------------------------------------------
(* The compiled query automaton (consumed by the engine, immutable) *)

\* State s of automaton a; states are numbered from 0, state 0 rejects.
StateOf(a, s) == a.states[s + 1]
transitions(a, s) == StateOf(a, s).transitions
fallback_state(a, s) == StateOf(a, s).fallback
initial_state(a) == a.initial
is_empty_query(a) == a.empty
is_accepting(a, s) == StateOf(a, s).accepting
\* a sink: not accepting, no labelled transition, falls back to itself
is_rejecting(a, s) ==
    /\ ~StateOf(a, s).accepting
    /\ Len(StateOf(a, s).transitions) = 0
    /\ StateOf(a, s).fallback = s
\* exactly one label progresses towards acceptance and every other label rejects
is_unitary(a, s) ==
    /\ Len(StateOf(a, s).transitions) = 1
    /\ is_rejecting(a, StateOf(a, s).fallback)
\* some transition, labelled or fallback, leads to an accepting state
has_transition_to_accepting(a, s) ==
    \/ \E i \in 1..Len(transitions(a, s)) : is_accepting(a, transitions(a, s)[i].target)
    \/ is_accepting(a, fallback_state(a, s))

Tr(label, target) == [label |-> label, target |-> target]
St(trs, fb, acc) == [transitions |-> trs, fallback |-> fb, accepting |-> acc]
Rejecting == St(<<>>, 0, FALSE)
Aut(name, states, empty) ==
    [name |-> name, states |-> states, initial |-> 1, empty |-> empty]

\* $
AutRoot == Aut("$", <<Rejecting, St(<<>>, 0, TRUE)>>, TRUE)
\* $..l
AutDescendant(l) ==
    Aut("$..l", <<Rejecting,
                  St(<<Tr(l, 2)>>, 1, FALSE),
                  St(<<Tr(l, 2)>>, 1, TRUE)>>, FALSE)
\* $..l..m
AutDescendantDescendant(l, m) ==
    Aut("$..l..m", <<Rejecting,
                     St(<<Tr(l, 2)>>, 1, FALSE),
                     St(<<Tr(m, 3)>>, 2, FALSE),
                     St(<<Tr(m, 3)>>, 2, TRUE)>>, FALSE)
\* $..l[*]
AutDescendantWildcard(l) ==
    Aut("$..l[*]", <<Rejecting,
                     St(<<Tr(l, 2)>>, 1, FALSE),
                     St(<<Tr(l, 4)>>, 3, FALSE),
                     St(<<Tr(l, 2)>>, 1, TRUE),
                     St(<<Tr(l, 4)>>, 3, TRUE)>>, FALSE)
\* $.l
AutChild(l) ==
    Aut("$.l", <<Rejecting,
                 St(<<Tr(l, 2)>>, 0, FALSE),
                 St(<<>>, 0, TRUE)>>, FALSE)
\* $.l.m
AutChildChild(l, m) ==
    Aut("$.l.m", <<Rejecting,
                   St(<<Tr(l, 2)>>, 0, FALSE),
                   St(<<Tr(m, 3)>>, 0, FALSE),
                   St(<<>>, 0, TRUE)>>, FALSE)
\* $.*
AutWildcard ==
    Aut("$.*", <<Rejecting,
                 St(<<>>, 2, FALSE),
                 St(<<>>, 0, TRUE)>>, FALSE)
\* $.l..m
AutChildDescendant(l, m) ==
    Aut("$.l..m", <<Rejecting,
                    St(<<Tr(l, 2)>>, 0, FALSE),
                    St(<<Tr(m, 3)>>, 2, FALSE),
                    St(<<Tr(m, 3)>>, 2, TRUE)>>, FALSE)
\* $..l.m
AutDescendantChild(l, m) ==
    Aut("$..l.m", <<Rejecting,
                    St(<<Tr(l, 2)>>, 1, FALSE),
                    St(<<Tr(l, 2), Tr(m, 3)>>, 1, FALSE),
                    St(<<Tr(l, 2)>>, 1, TRUE)>>, FALSE)

Automata ==
    {AutRoot, AutDescendant(La), AutDescendantDescendant(La, Lb),
     AutDescendantWildcard(La), AutChild(La), AutChildChild(La, Lb), AutWildcard,
     AutChildDescendant(La, Lb), AutDescendantChild(La, Lb)}

\* the feature sets the crate builds with: unique-labels needs tail-skip (it calls skip)
Features ==
    {[tail_skip |-> FALSE, unique_labels |-> FALSE],
     [tail_skip |-> TRUE, unique_labels |-> FALSE],
     [tail_skip |-> TRUE, unique_labels |-> TRUE]}
NoFeatures == [tail_skip |-> FALSE, unique_labels |-> FALSE]

-----------------------------------------------------------------------------
(* Quote and structural classification *)

\* the byte at offset i; the buffer is padded with zero bytes
At(i) == IF i < Len(bytes) THEN bytes[i + 1] ELSE NUL

NoEvent == [kind |-> "None", bracket |-> "None", idx |-> 0]
Colon(idx) == [kind |-> "Colon", bracket |-> "None", idx |-> idx]
Comma(idx) == [kind |-> "Comma", bracket |-> "None", idx |-> idx]
Opening(b, idx) == [kind |-> "Opening", bracket |-> b, idx |-> idx]
Closing(b, idx) == [kind |-> "Closing", bracket |-> b, idx |-> idx]
is_opening(ev) == ev.kind = "Opening"
is_closing(ev) == ev.kind = "Closing"

\* The structural event of byte c at offset i, NoEvent when c is not structural
\* or its kind is masked out.
StructuralAt(c, i, colons, commas) ==
    CASE c = "{" -> Opening("Curly", i)
      [] c = "[" -> Opening("Square", i)
      [] c = "}" -> Closing("Curly", i)
      [] c = "]" -> Closing("Square", i)
      [] c = ":" /\ colons -> Colon(i)
      [] c = "," /\ commas -> Comma(i)
      [] OTHER -> NoEvent

\* The quote classifier's step over one byte: (within quotes, escaped) after byte c.
\* A quote after an odd run of backslashes neither opens nor closes a string.
QuoteStep(c, inq, esc) ==
    IF esc THEN [inq |-> inq, esc |-> FALSE]
    ELSE IF c = BSLASH THEN [inq |-> inq, esc |-> TRUE]
    ELSE IF c = QUOTE THEN [inq |-> ~inq, esc |-> FALSE]
    ELSE [inq |-> inq, esc |-> FALSE]

RECURSIVE ScanStructural(_, _, _, _, _)
\* The first enabled structural byte outside strings at offset >= i:
\* [ev |-> the event or NoEvent, pos |-> the offset after it].
ScanStructural(i, inq, esc, colons, commas) ==
    IF i >= Len(bytes) THEN [ev |-> NoEvent, pos |-> Len(bytes)]
    ELSE LET c == At(i)
             q == QuoteStep(c, inq, esc)
             ev == StructuralAt(c, i, colons, commas)
         IN IF ~inq /\ ~esc /\ ev.kind # "None" THEN [ev |-> ev, pos |-> i + 1]
            ELSE ScanStructural(i + 1, q.inq, q.esc, colons, commas)

\* StructuralIterator::next from classifier position p (always just after a
\* structural byte, hence outside any string)
ClassifierNext(p, colons, commas) == ScanStructural(p, FALSE, FALSE, colons, commas)

\* the classifiers work on blocks of 64 bytes
BlockSize == 64

RECURSIVE ScanDepthBlock(_, _, _, _, _, _)
\* The depth classifier for bracket `opening` over the bytes i..end-1 of one
\* block, entered at depth d: whether the depth reached 0 and where, else the
\* quote state and depth the next block is entered with.
ScanDepthBlock(i, end, inq, esc, opening, d) ==
    IF i >= end THEN [found |-> FALSE, idx |-> end, inq |-> inq, esc |-> esc, d |-> d]
    ELSE LET c == At(i)
             q == QuoteStep(c, inq, esc)
             closing == IF opening = "[" THEN "]" ELSE "}"
             outside == ~inq /\ ~esc
             d2 == IF outside /\ c = opening THEN d + 1
                   ELSE IF outside /\ c = closing THEN d - 1
                   ELSE d
         IN IF d2 = 0 THEN [found |-> TRUE, idx |-> i, inq |-> q.inq, esc |-> q.esc, d |-> 0]
            ELSE ScanDepthBlock(i + 1, end, q.inq, q.esc, opening, d2)

RECURSIVE ScanDepth(_, _, _, _, _)
\* The depth classifier driven block by block from offset i at depth d until
\* the depth reaches 0: the offset of that close, Len(bytes) when the input ends
\* first.
ScanDepth(i, inq, esc, opening, d) ==
    IF i >= Len(bytes) THEN Len(bytes)
    ELSE LET next_block == (i \div BlockSize + 1) * BlockSize
             end == IF next_block < Len(bytes) THEN next_block ELSE Len(bytes)
             r == ScanDepthBlock(i, end, inq, esc, opening, d)
         IN IF r.found THEN r.idx
            ELSE ScanDepth(end, r.inq, r.esc, opening, r.d)

\* TailSkip::skip(opening) from classifier position p: the offset of the close
\* matching the container the classifier is in; classification resumes after it.
Skip(p, opening) ==
    LET close_idx == ScanDepth(p, FALSE, FALSE, opening, 1)
    IN [idx |-> close_idx,
        pos |-> IF close_idx < Len(bytes) THEN close_idx + 1 ELSE Len(bytes)]

-----------------------------------------------------------------------------
(* The quote classifier, block by block *)

\* A mask is the set of its lit bits; bit j of the block at offset base stands
\* for the byte at base + j.
Bits == 0..(BlockSize - 1)

\* classify_quoted_sequences(bytes): no block yielded, both carries clear
classify_quoted_sequences == [masks |-> <<>>, inq |-> FALSE, esc |-> FALSE]

\* whether the run of backslashes that ends right before bit j of the block at
\* base is of odd length, a run that reaches the start of the block going on
\* with the carry of the block before
OddRunBefore(base, j, carry_esc) ==
    LET k == CHOOSE k \in 0..j :
                 /\ \A m \in k..(j - 1) : At(base + m) = BSLASH
                 /\ k = 0 \/ At(base + k - 1) # BSLASH
        odd == (j - k) % 2 = 1
    IN IF k = 0 THEN odd # carry_esc ELSE odd

\* the block classified without the carry of the backslash run
QuoteBlock_no_escape_carry(base, carry_inq, carry_esc) ==
    LET quote_bits == {j \in Bits : At(base + j) = QUOTE}
        unescaped == {j \in quote_bits : ~OddRunBefore(base, j, FALSE)}
        within == {j \in Bits :
                      (Cardinality({q \in unescaped : q <= j}) % 2 = 1) # carry_inq}
    IN [mask |-> within,
        inq |-> (BlockSize - 1) \in within,
        esc |-> OddRunBefore(base, BlockSize, FALSE)]

\* One block of the quote classifier: the quotes of the block, those of them not
\* escaped by an odd run of backslashes, the within-quotes mask as the prefix
\* parity of the unescaped quotes started from the carry, and the carries for
\* the next block.
QuoteBlock(base, carry_inq, carry_esc) ==
    LET quote_bits == {j \in Bits : At(base + j) = QUOTE}
        unescaped == {j \in quote_bits : ~OddRunBefore(base, j, carry_esc)}
        within == {j \in Bits :
                      (Cardinality({q \in unescaped : q <= j}) % 2 = 1) # carry_inq}
    IN [mask |-> within,
        inq |-> (BlockSize - 1) \in within,
        esc |-> OddRunBefore(base, BlockSize, carry_esc)]

\* QuoteClassifiedIterator::get_offset
get_offset(q) == BlockSize * Len(q.masks)

\* QuoteClassifiedIterator::next on classifier q
quotes_next(q) ==
    LET b == QuoteBlock(get_offset(q), q.inq, q.esc)
    IN [masks |-> Append(q.masks, b.mask), inq |-> b.inq, esc |-> b.esc]

-----------------------------------------------------------------------------
(* The structural classifier, block by block *)

\* A classifier is [q |-> its quote classifier, mask |-> the structural bits of
\* the current block still to be yielded, colons, commas |-> the kinds enabled];
\* the current block is the last one q has yielded.
Brackets == {"{", "}", "[", "]"}
enabled_kinds(colons, commas) ==
    Brackets \cup (IF colons THEN {":"} ELSE {}) \cup (IF commas THEN {","} ELSE {})

current_base(c) == BlockSize * (Len(c.q.masks) - 1)
\* structural_bits taking the bytes inside strings too
structural_bits_in_strings(c, kinds) ==
    IF Len(c.q.masks) = 0 THEN {}
    ELSE {j \in Bits : At(current_base(c) + j) \in kinds}
\* the bits of the current block that hold a byte of the given kinds outside strings
structural_bits(c, kinds) ==
    IF Len(c.q.masks) = 0 THEN {}
    ELSE {j \in Bits : /\ j \notin c.q.masks[Len(c.q.masks)]
                       /\ At(current_base(c) + j) \in kinds}
\* the bits of the current block after offset idx
bits_after(c, idx) == {j \in Bits : current_base(c) + j > idx}

\* classify_structural_characters(quote_classifier): nothing classified,
\* colons and commas disabled
classify_structural_characters(q) ==
    [q |-> q, mask |-> {}, colons |-> FALSE, commas |-> FALSE]

lowest(mask) == CHOOSE j \in mask : \A k \in mask : j <= k
highest(mask) == CHOOSE j \in mask : \A k \in mask : j >= k

RECURSIVE structural_next_descending(_)
\* structural_next iterating the bits of a block from the high end
structural_next_descending(c) ==
    IF c.mask # {}
    THEN LET j == highest(c.mask)
             i == current_base(c) + j
         IN [ev |-> StructuralAt(At(i), i, TRUE, TRUE), c |-> [c EXCEPT !.mask = @ \ {j}]]
    ELSE IF get_offset(c.q) >= Len(bytes) THEN [ev |-> NoEvent, c |-> c]
    ELSE LET fetched == [c EXCEPT !.q = quotes_next(c.q)]
         IN structural_next_descending(
                [fetched EXCEPT !.mask = structural_bits(fetched,
                                                         enabled_kinds(c.colons, c.commas))])

RECURSIVE structural_next(_)
\* StructuralIterator::next: the lowest bit left in the current block, else the
\* next block is classified with the kinds enabled now.
\* [ev |-> the event or NoEvent at the end of the input, c |-> the classifier after]
structural_next(c) ==
    IF c.mask # {}
    THEN LET j == lowest(c.mask)
             i == current_base(c) + j
         IN [ev |-> StructuralAt(At(i), i, TRUE, TRUE), c |-> [c EXCEPT !.mask = @ \ {j}]]
    ELSE IF get_offset(c.q) >= Len(bytes) THEN [ev |-> NoEvent, c |-> c]
    ELSE LET fetched == [c EXCEPT !.q = quotes_next(c.q)]
         IN structural_next(
                [fetched EXCEPT !.mask = structural_bits(fetched,
                                                         enabled_kinds(c.colons, c.commas))])

\* turn_colons_on that sets the flag for the blocks to come and leaves the
\* current block as it was classified
turn_colons_on_next_block(c, idx) == [c EXCEPT !.colons = TRUE]

\* StructuralIterator::turn_colons_on(idx): the colons of the current block after
\* idx are classified too
turn_colons_on(c, idx) ==
    [c EXCEPT !.colons = TRUE,
              !.mask = @ \cup (structural_bits(c, {":"}) \cap bits_after(c, idx))]
\* StructuralIterator::turn_colons_off
turn_colons_off(c) ==
    [c EXCEPT !.colons = FALSE, !.mask = @ \ structural_bits(c, {":"})]
\* StructuralIterator::turn_commas_on(idx)
turn_commas_on(c, idx) ==
    [c EXCEPT !.commas = TRUE,
              !.mask = @ \cup (structural_bits(c, {","}) \cap bits_after(c, idx))]
\* StructuralIterator::turn_commas_off
turn_commas_off(c) ==
    [c EXCEPT !.commas = FALSE, !.mask = @ \ structural_bits(c, {","})]

closing_of(opening) == IF opening = "[" THEN "]" ELSE "}"

RECURSIVE depth_in_block_through_strings(_, _, _, _)
\* depth_in_block counting the brackets inside strings too
depth_in_block_through_strings(q, j, opening, d) ==
    IF j >= BlockSize THEN [found |-> FALSE, idx |-> 0, d |-> d]
    ELSE LET i == BlockSize * (Len(q.masks) - 1) + j
             d2 == IF At(i) = opening THEN d + 1
                   ELSE IF At(i) = closing_of(opening) THEN d - 1
                   ELSE d
         IN IF d2 = 0 THEN [found |-> TRUE, idx |-> i, d |-> 0]
            ELSE depth_in_block_through_strings(q, j + 1, opening, d2)

RECURSIVE depth_in_block(_, _, _, _)
\* DepthBlock: the depth over the bits j.. of the current block of quote
\* classifier q, entered at depth d, counting the brackets of kind `opening`
\* outside strings: whether the depth reached 0 and where, else the depth at the
\* end of the block.
depth_in_block(q, j, opening, d) ==
    IF j >= BlockSize THEN [found |-> FALSE, idx |-> 0, d |-> d]
    ELSE LET i == BlockSize * (Len(q.masks) - 1) + j
             outside == j \notin q.masks[Len(q.masks)]
             d2 == IF outside /\ At(i) = opening THEN d + 1
                   ELSE IF outside /\ At(i) = closing_of(opening) THEN d - 1
                   ELSE d
         IN IF d2 = 0 THEN [found |-> TRUE, idx |-> i, d |-> 0]
            ELSE depth_in_block(q, j + 1, opening, d2)

RECURSIVE depth_until_zero(_, _, _, _)
\* The skipping loop over a DepthIterator resumed at bit j of the current block
\* of q: [found, idx |-> the offset where the depth reached 0, q |-> the quote
\* classifier there]; the input can end first.
depth_until_zero(q, j, opening, d) ==
    IF Len(q.masks) = 0 \/ j >= BlockSize
    THEN IF get_offset(q) >= Len(bytes) THEN [found |-> FALSE, idx |-> Len(bytes), q |-> q]
         ELSE depth_until_zero(quotes_next(q), 0, opening, d)
    ELSE LET r == depth_in_block(q, j, opening, d)
         IN IF r.found THEN [found |-> TRUE, idx |-> r.idx, q |-> q]
            ELSE depth_until_zero(q, BlockSize, opening, r.d)

\* TailSkip::skip(opening) with the classifier stopped at offset p: the depth
\* classifier runs from p at depth 1 to the close where the depth is 0, and the
\* structural classifier is resumed in that block after the close.
\* [idx |-> the offset of the close, c |-> the classifier resumed]
skip(c, p, opening) ==
    LET r == depth_until_zero(c.q, p - current_base(c), opening, 1)
        stopped == [c EXCEPT !.q = r.q]
    IN [idx |-> r.idx,
        c |-> [stopped EXCEPT
                   !.mask = IF r.found
                            THEN structural_bits(stopped, enabled_kinds(c.colons, c.commas))
                                     \cap bits_after(stopped, r.idx)
                            ELSE {}]]

-----------------------------------------------------------------------------
(* The depth classifier, block by block *)

\* A depth block is [opening |-> the bracket kind counted, idx |-> the cursor,
\* the bit after the last one examined, depth |-> the depth at the cursor,
\* advanced |-> what the last advance_to_next_depth_decrease returned]; it
\* decorates the current block of quote classifier q.
\* the bits at or after the cursor that hold byte c outside strings
bits_left(q, b, c) ==
    {j \in Bits : /\ j >= b.idx
                  /\ j \notin q.masks[Len(q.masks)]
                  /\ At(BlockSize * (Len(q.masks) - 1) + j) = c}
\* bits_left taking the brackets of both kinds
bits_left_any_kind(q, b, c) ==
    {j \in Bits : /\ j >= b.idx
                  /\ j \notin q.masks[Len(q.masks)]
                  /\ At(BlockSize * (Len(q.masks) - 1) + j)
                         \in (IF c \in {"{", "["} THEN {"{", "["} ELSE {"}", "]"})}

\* classify_depth(quote_classifier, opening): no block yet
classify_depth(opening) ==
    [opening |-> opening, idx |-> BlockSize, depth |-> 0, advanced |-> FALSE]
\* DepthBlock::add_depth
add_depth(b, d) == [b EXCEPT !.depth = @ + d]
\* DepthBlock::get_depth
get_depth(b) == b.depth
\* depth_at_end read at the cursor
depth_at_end_at_cursor(q, b) == b.depth
\* DepthBlock::depth_at_end
depth_at_end(q, b) ==
    b.depth + Cardinality(bits_left(q, b, b.opening))
            - Cardinality(bits_left(q, b, closing_of(b.opening)))
\* estimate_lowest_possible_depth that takes the depth at the end of the block
estimate_as_depth_at_end(q, b) == depth_at_end(q, b)
\* DepthBlock::estimate_lowest_possible_depth: the depth less the closes left
estimate_lowest_possible_depth(q, b) ==
    b.depth - Cardinality(bits_left(q, b, closing_of(b.opening)))
\* advance_to_next_depth_decrease counting the brackets of both kinds
advance_any_kind(q, b) ==
    LET closes == bits_left_any_kind(q, b, closing_of(b.opening))
        opens == bits_left_any_kind(q, b, b.opening)
    IN IF closes = {}
       THEN [b EXCEPT !.idx = BlockSize, !.depth = @ + Cardinality(opens),
                      !.advanced = FALSE]
       ELSE LET j == lowest(closes)
            IN [b EXCEPT !.idx = j + 1,
                         !.depth = @ + Cardinality({o \in opens : o < j}) - 1,
                         !.advanced = TRUE]
\* DepthBlock::advance_to_next_depth_decrease: the cursor moves past the next
\* close of the kind, or to the end of the block when there is none
advance_to_next_depth_decrease(q, b) ==
    LET closes == bits_left(q, b, closing_of(b.opening))
        opens == bits_left(q, b, b.opening)
    IN IF closes = {}
       THEN [b EXCEPT !.idx = BlockSize, !.depth = @ + Cardinality(opens),
                      !.advanced = FALSE]
       ELSE LET j == lowest(closes)
            IN [b EXCEPT !.idx = j + 1,
                         !.depth = @ + Cardinality({o \in opens : o < j}) - 1,
                         !.advanced = TRUE]
\* DepthIterator::next as the skipping loop uses it: the next block, to which
\* the depth at the end of the current one is added
depth_next(q, b) ==
    add_depth([classify_depth(b.opening) EXCEPT !.idx = 0], depth_at_end(q, b))

-----------------------------------------------------------------------------
(* The executor *)

DepthLimit == 255

Running == [kind |-> "Running", idx |-> 0]
Ok == [kind |-> "Ok", idx |-> 0]
DepthAboveLimit(idx) == [kind |-> "DepthAboveLimit", idx |-> idx]
DepthBelowZero(idx) == [kind |-> "DepthBelowZero", idx |-> idx]
MalformedLabelQuotes(idx) == [kind |-> "MalformedLabelQuotes", idx |-> idx]
MissingClosingCharacter == [kind |-> "MissingClosingCharacter", idx |-> 0]
\* an index underflow or an out-of-range index: the run panics
Panic(idx) == [kind |-> "Panic", idx |-> idx]

StackFrame(d, s, l) == [depth |-> d, state |-> s, is_list |-> l]

\* query_executor: a fresh executor over a fresh classifier
query_executor ==
    [depth |-> 0, state |-> initial_state(automaton), stack |-> <<>>,
     next_event |-> NoEvent, is_list |-> FALSE,
     pos |-> 0, colons_on |-> FALSE, commas_on |-> FALSE,
     result |-> <<>>, outcome |-> Running]

report(e, idx) == [e EXCEPT !.result = Append(@, idx)]
fail(e, err) == [e EXCEPT !.outcome = err]

\* pop_if_at_or_below popping only strictly below the frame's depth
pop_if_below(stk, d) == Len(stk) > 0 /\ d < stk[Len(stk)].depth

\* SmallStack::pop_if_at_or_below: whether the top frame is popped at depth d
pop_if_at_or_below(stk, d) == Len(stk) > 0 /\ d <= stk[Len(stk)].depth

\* transition_to pushing the depth of the opened container instead of the
\* depth the opening was met at
transition_to_opened_depth(e, target, opening) ==
    LET target_is_list == opening = "["
    IN IF target # e.state \/ target_is_list # e.is_list
       THEN [e EXCEPT !.stack = Append(@, StackFrame(e.depth + 1, e.state, e.is_list)),
                      !.state = target]
       ELSE e

\* transition_to pushing when the state changes only
transition_to_on_state_change(e, target, opening) ==
    IF target # e.state
    THEN [e EXCEPT !.stack = Append(@, StackFrame(e.depth, e.state, e.is_list)),
                   !.state = target]
    ELSE e

\* Executor::transition_to
transition_to(e, target, opening) ==
    LET target_is_list == opening = "["
    IN IF target # e.state \/ target_is_list # e.is_list
       THEN [e EXCEPT !.stack = Append(@, StackFrame(e.depth, e.state, e.is_list)),
                      !.state = target]
       ELSE e

RECURSIVE SkipWhitespaceBack(_)
\* the loop of find_preceding_colon: the nearest non-whitespace offset <= i, -2 when
\* the scan steps below offset 0
SkipWhitespaceBack(i) ==
    IF i < 0 THEN -2
    ELSE IF IsWhitespace(At(i)) THEN SkipWhitespaceBack(i - 1)
    ELSE i

\* find_preceding_colon without the test of the depth: the scan also starts
\* before an opening at depth 0
find_preceding_colon_any_depth(d, idx) ==
    LET colon_idx == SkipWhitespaceBack(idx - 1)
    IN IF colon_idx = -2 THEN -2
       ELSE IF At(colon_idx) = ":" THEN colon_idx
       ELSE -1

\* Executor::find_preceding_colon: the colon's offset, -1 for None, -2 for a panic
find_preceding_colon(d, idx) ==
    IF d = 0 THEN -1
    ELSE LET colon_idx == SkipWhitespaceBack(idx - 1)
         IN IF colon_idx = -2 THEN -2
            ELSE IF At(colon_idx) = ":" THEN colon_idx
            ELSE -1

RECURSIVE FindQuoteBack(_)
\* the loop of is_match: the nearest quote at an offset <= i, -1 when there is none
FindQuoteBack(i) ==
    IF At(i) = QUOTE THEN i
    ELSE IF i = 0 THEN -1
    ELSE FindQuoteBack(i - 1)

\* is_match answering false, instead of failing, when the scan finds no quote
is_match_lenient(idx, label) ==
    IF idx = 0 THEN "panic"
    ELSE LET len == Len(label) + 2
             closing_quote_idx == FindQuoteBack(idx - 1)
             start_idx == closing_quote_idx + 1 - len
         IN IF closing_quote_idx = -1 THEN "nomatch"
            ELSE IF closing_quote_idx + 1 < len THEN "nomatch"
            ELSE IF /\ Q(label) = [i \in 1..len |-> At(start_idx + i - 1)]
                    /\ (start_idx = 0 \/ At(start_idx - 1) # BSLASH)
            THEN "match"
            ELSE "nomatch"

\* is_match comparing the label and its closing quote only, the opening quote of
\* the key not being looked at
is_match_suffix(idx, label) ==
    IF idx = 0 THEN "panic"
    ELSE LET len == Len(label) + 1
             closing_quote_idx == FindQuoteBack(idx - 1)
             start_idx == closing_quote_idx + 1 - len
         IN IF closing_quote_idx = -1 THEN "malformed"
            ELSE IF closing_quote_idx + 1 < len THEN "nomatch"
            ELSE IF /\ Append(label, QUOTE) = [i \in 1..len |-> At(start_idx + i - 1)]
                    /\ (start_idx = 0 \/ At(start_idx - 1) # BSLASH)
            THEN "match"
            ELSE "nomatch"

\* is_match taking the candidate's opening quote for escaped only when the run
\* of backslashes before it is of odd length
is_match_run_parity(idx, label) ==
    IF idx = 0 THEN "panic"
    ELSE LET len == Len(label) + 2
             closing_quote_idx == FindQuoteBack(idx - 1)
             start_idx == closing_quote_idx + 1 - len
         IN IF closing_quote_idx = -1 THEN "malformed"
            ELSE IF closing_quote_idx + 1 < len THEN "nomatch"
            ELSE IF /\ Q(label) = [i \in 1..len |-> At(start_idx + i - 1)]
                    /\ ~OddRunBefore(0, start_idx, FALSE)
            THEN "match"
            ELSE "nomatch"

\* Executor::is_match: "match", "nomatch", "malformed" (MalformedLabelQuotes) or "panic"
is_match(idx, label) ==
    IF idx = 0 THEN "panic"
    ELSE LET len == Len(label) + 2
             closing_quote_idx == FindQuoteBack(idx - 1)
             start_idx == closing_quote_idx + 1 - len
         IN IF closing_quote_idx = -1 THEN "malformed"
            ELSE IF closing_quote_idx + 1 < len THEN "nomatch"
            ELSE IF /\ Q(label) = [i \in 1..len |-> At(start_idx + i - 1)]
                    /\ (start_idx = 0 \/ At(start_idx - 1) # BSLASH)
            THEN "match"
            ELSE "nomatch"

RECURSIVE FirstMatch(_, _, _, _)
\* The loop over the transitions of a state, from transition i: the first one
\* whose label matches at the colon (only_accepting: transitions to a
\* non-accepting target are passed over without matching).
FirstMatch(trs, i, colon_idx, only_accepting) ==
    IF i > Len(trs) THEN [r |-> "nomatch", target |-> 0]
    ELSE IF only_accepting /\ ~is_accepting(automaton, trs[i].target)
    THEN FirstMatch(trs, i + 1, colon_idx, only_accepting)
    ELSE LET m == is_match(colon_idx, trs[i].label)
         IN IF m = "nomatch" THEN FirstMatch(trs, i + 1, colon_idx, only_accepting)
            ELSE [r |-> m, target |-> trs[i].target]

opening_of(l) == IF l THEN "[" ELSE "{"
bracket_type(l) == IF l THEN "Square" ELSE "Curly"

\* classifier.next() called without storing what it returns: the event is lost
read_lookahead_dropping(e) ==
    LET la == ClassifierNext(e.pos, e.colons_on, e.commas_on)
    IN [e EXCEPT !.next_event = NoEvent, !.pos = la.pos]

\* classifier.next() stored as the lookahead
read_lookahead(e) ==
    LET la == ClassifierNext(e.pos, e.colons_on, e.commas_on)
    IN [e EXCEPT !.next_event = la.ev, !.pos = la.pos]

\* the condition of the unique-labels skip without any_matched: the rest of the
\* container is skipped after any member seen in a unitary state
should_skip_always(e, any_matched, next) ==
    /\ ~is_closing(next)
    /\ is_unitary(automaton, e.state)

\* handle_colon, lines 224-225: whether the rest of the container is skipped
should_skip(e, any_matched, next) ==
    /\ any_matched
    /\ ~is_closing(next)
    /\ is_unitary(automaton, e.state)

\* the unique-labels skip counting the brackets of the other kind than that of
\* the enclosing container
skip_unique_other_kind(e) ==
    LET sk == Skip(e.pos, opening_of(~e.is_list))
    IN [e EXCEPT !.pos = sk.pos,
                 !.next_event = Closing(bracket_type(e.is_list), sk.idx)]

\* the unique-labels skip: to the close of the enclosing container, which is
\* synthesized as the next event
skip_unique(e) ==
    LET sk == Skip(e.pos, opening_of(e.is_list))
    IN [e EXCEPT !.pos = sk.pos,
                 !.next_event = Closing(bracket_type(e.is_list), sk.idx)]

\* handle_colon reporting for the accepting fallback state whether or not a
\* transition has matched (without the !any_matched of line 219)
handle_colon_fallback_after_match(e, idx, F) ==
    LET e1 == read_lookahead(e)
        fm == FirstMatch(transitions(automaton, e.state), 1, idx, TRUE)
        any_matched == fm.r = "match"
        fb == fallback_state(automaton, e.state)
        matched == IF any_matched THEN report(e1, idx) ELSE e1
        e2 == IF is_accepting(automaton, fb) THEN report(matched, idx) ELSE matched
    IN IF is_opening(e1.next_event) THEN e1
       ELSE IF fm.r = "malformed" THEN fail(e1, MalformedLabelQuotes(idx))
       ELSE IF fm.r = "panic" THEN fail(e1, Panic(idx))
       ELSE IF F.unique_labels /\ should_skip(e, any_matched, e1.next_event)
       THEN skip_unique(e2)
       ELSE e2

\* handle_colon reporting the colon even when a container follows it, whose
\* Opening reports the same colon again
handle_colon_before_openings(e, idx, F) ==
    LET e1 == read_lookahead(e)
        fm == FirstMatch(transitions(automaton, e.state), 1, idx, TRUE)
        any_matched == fm.r = "match"
        fb == fallback_state(automaton, e.state)
        e2 == IF any_matched \/ is_accepting(automaton, fb) THEN report(e1, idx) ELSE e1
    IN IF fm.r = "malformed" THEN fail(e1, MalformedLabelQuotes(idx))
       ELSE IF fm.r = "panic" THEN fail(e1, Panic(idx))
       ELSE IF is_opening(e1.next_event) THEN e2
       ELSE IF F.unique_labels /\ should_skip(e, any_matched, e1.next_event)
       THEN skip_unique(e2)
       ELSE e2

\* Executor::handle_colon
handle_colon(e, idx, F) ==
    LET e1 == read_lookahead(e)
        fm == FirstMatch(transitions(automaton, e.state), 1, idx, TRUE)
        any_matched == fm.r = "match"
        fb == fallback_state(automaton, e.state)
        e2 == IF any_matched \/ is_accepting(automaton, fb) THEN report(e1, idx) ELSE e1
    IN IF is_opening(e1.next_event) THEN e1
       ELSE IF fm.r = "malformed" THEN fail(e1, MalformedLabelQuotes(idx))
       ELSE IF fm.r = "panic" THEN fail(e1, Panic(idx))
       ELSE IF F.unique_labels /\ should_skip(e, any_matched, e1.next_event)
       THEN skip_unique(e2)
       ELSE e2

\* handle_comma reporting the comma whatever the lookahead is, a container
\* element after it being reported again by its Opening
handle_comma_before_openings(e, idx, F) ==
    LET e1 == read_lookahead(e)
        fb == fallback_state(automaton, e.state)
    IN IF e.is_list /\ is_accepting(automaton, fb)
       THEN report(e1, idx)
       ELSE e1

\* Executor::handle_comma
handle_comma(e, idx, F) ==
    LET e1 == read_lookahead(e)
        fb == fallback_state(automaton, e.state)
    IN IF ~is_opening(e1.next_event) /\ e.is_list /\ is_accepting(automaton, fb)
       THEN report(e1, idx)
       ELSE e1

RECURSIVE FirstNonWhitespace(_, _)
\* the first offset in i..close_idx-1 holding a non-whitespace byte, -1 when there is none
FirstNonWhitespace(i, close_idx) ==
    IF i >= close_idx THEN -1
    ELSE IF ~IsWhitespace(At(i)) THEN i
    ELSE FirstNonWhitespace(i + 1, close_idx)

\* open_list reporting, when a comma follows, the offset after that comma instead
\* of the offset after the opening bracket
open_list_after_comma(e, idx) ==
    IF At(idx) = "["
    THEN LET fb == fallback_state(automaton, e.state)
             e1 == [e EXCEPT !.is_list = TRUE]
         IN IF is_accepting(automaton, fb)
            THEN LET e2 == read_lookahead([e1 EXCEPT !.commas_on = TRUE])
                     ev == e2.next_event
                     first == FirstNonWhitespace(idx + 1, ev.idx)
                 IN IF ev.kind = "Closing"
                    THEN (IF first # -1 THEN report(e2, first) ELSE e2)
                    ELSE IF ev.kind = "Comma" THEN report(e2, ev.idx + 1)
                    ELSE e2
            ELSE [e1 EXCEPT !.commas_on = FALSE]
    ELSE [e EXCEPT !.is_list = FALSE]

\* open_list reporting the offset after the bracket before a Closing as it
\* does before a Comma, whitespace and empty lists included
open_list_first_byte(e, idx) ==
    IF At(idx) = "["
    THEN LET fb == fallback_state(automaton, e.state)
             e1 == [e EXCEPT !.is_list = TRUE]
         IN IF is_accepting(automaton, fb)
            THEN LET e2 == read_lookahead([e1 EXCEPT !.commas_on = TRUE])
                     ev == e2.next_event
                 IN IF ev.kind \in {"Closing", "Comma"} THEN report(e2, idx + 1)
                    ELSE e2
            ELSE [e1 EXCEPT !.commas_on = FALSE]
    ELSE [e EXCEPT !.is_list = FALSE]

\* handle_opening, lines 322-348: is_list, the comma mask and the first element of a list
open_list(e, idx) ==
    IF At(idx) = "["
    THEN LET fb == fallback_state(automaton, e.state)
             e1 == [e EXCEPT !.is_list = TRUE]
         IN IF is_accepting(automaton, fb)
            THEN LET e2 == read_lookahead([e1 EXCEPT !.commas_on = TRUE])
                     ev == e2.next_event
                     first == FirstNonWhitespace(idx + 1, ev.idx)
                 IN IF ev.kind = "Closing"
                    THEN (IF first # -1 THEN report(e2, first) ELSE e2)
                    ELSE IF ev.kind = "Comma" THEN report(e2, idx + 1)
                    ELSE e2
            ELSE [e1 EXCEPT !.commas_on = FALSE]
    ELSE [e EXCEPT !.is_list = FALSE]

\* open_depth with a depth counter that wraps around instead of failing
open_depth_wrapping(e, idx) ==
    [e EXCEPT !.colons_on =
                  ~e.is_list /\ has_transition_to_accepting(automaton, e.state),
              !.depth = (@ + 1) % (DepthLimit + 1)]

\* handle_opening, lines 350-357: the colon mask and the depth increment
open_depth(e, idx) ==
    LET e1 == [e EXCEPT !.colons_on =
                   ~e.is_list /\ has_transition_to_accepting(automaton, e.state)]
    IN IF e1.depth = DepthLimit THEN fail(e1, DepthAboveLimit(idx))
       ELSE [e1 EXCEPT !.depth = @ + 1]

\* handle_opening making the transition to the fallback state before the
\* tail-skip instead of after the test for it
handle_opening_falling_before_skip(e, idx, F) ==
    LET c == At(idx)
        colon_idx == find_preceding_colon(e.depth, idx)
        fm == IF colon_idx >= 0
              THEN FirstMatch(transitions(automaton, e.state), 1, colon_idx, FALSE)
              ELSE [r |-> "nomatch", target |-> 0]
        any_matched == fm.r = "match"
        matched == LET e1 == transition_to(e, fm.target, c)
                   IN IF is_accepting(automaton, fm.target) THEN report(e1, colon_idx) ELSE e1
        fb == fallback_state(automaton, e.state)
        fallen == LET e1 == transition_to(e, fb, c)
                  IN IF is_accepting(automaton, fb) THEN report(e1, idx) ELSE e1
    IN IF colon_idx = -2 THEN fail(e, Panic(idx))
       ELSE IF fm.r = "malformed" THEN fail(e, MalformedLabelQuotes(colon_idx))
       ELSE IF fm.r = "panic" THEN fail(e, Panic(colon_idx))
       ELSE IF any_matched THEN open_depth(open_list(matched, idx), idx)
       ELSE IF e.depth # 0
       THEN IF F.tail_skip /\ is_rejecting(automaton, fb)
            THEN [transition_to(e, fb, c) EXCEPT !.pos = Skip(e.pos, c).pos]
            ELSE open_depth(open_list(fallen, idx), idx)
       ELSE open_depth(open_list(e, idx), idx)

\* Executor::handle_opening
handle_opening(e, idx, F) ==
    LET c == At(idx)
        colon_idx == find_preceding_colon(e.depth, idx)
        fm == IF colon_idx >= 0
              THEN FirstMatch(transitions(automaton, e.state), 1, colon_idx, FALSE)
              ELSE [r |-> "nomatch", target |-> 0]
        any_matched == fm.r = "match"
        matched == LET e1 == transition_to(e, fm.target, c)
                   IN IF is_accepting(automaton, fm.target) THEN report(e1, colon_idx) ELSE e1
        fb == fallback_state(automaton, e.state)
        fallen == LET e1 == transition_to(e, fb, c)
                  IN IF is_accepting(automaton, fb) THEN report(e1, idx) ELSE e1
    IN IF colon_idx = -2 THEN fail(e, Panic(idx))
       ELSE IF fm.r = "malformed" THEN fail(e, MalformedLabelQuotes(colon_idx))
       ELSE IF fm.r = "panic" THEN fail(e, Panic(colon_idx))
       ELSE IF any_matched THEN open_depth(open_list(matched, idx), idx)
       ELSE IF e.depth # 0
       THEN IF F.tail_skip /\ is_rejecting(automaton, fb)
            THEN [e EXCEPT !.pos = Skip(e.pos, c).pos]
            ELSE open_depth(open_list(fallen, idx), idx)
       ELSE open_depth(open_list(e, idx), idx)

\* close_masks leaving colons off after every Closing
close_masks_colons_off(e) ==
    [e EXCEPT !.commas_on =
                  e.is_list /\ is_accepting(automaton, fallback_state(automaton, e.state)),
              !.colons_on = FALSE]

\* handle_closing, lines 409-423: the masks of the container returned to
close_masks(e) ==
    [e EXCEPT !.commas_on =
                  e.is_list /\ is_accepting(automaton, fallback_state(automaton, e.state)),
              !.colons_on =
                  ~e.is_list /\ has_transition_to_accepting(automaton, e.state)]

\* handle_closing with a depth counter that stays at 0 instead of failing
handle_closing_saturating(e, idx, F) ==
    LET d == IF e.depth = 0 THEN 0 ELSE e.depth - 1
        e1 == [e EXCEPT !.depth = d]
    IN IF pop_if_at_or_below(e.stack, d)
       THEN LET stack_frame == e.stack[Len(e.stack)]
                e2 == [e1 EXCEPT !.stack = SubSeq(@, 1, Len(@) - 1),
                                 !.state = stack_frame.state,
                                 !.is_list = stack_frame.is_list]
            IN IF F.unique_labels /\ is_unitary(automaton, e2.state)
               THEN skip_unique(e2)
               ELSE close_masks(e2)
       ELSE close_masks(e1)

\* handle_closing taking the state of the popped frame and leaving is_list as
\* the closed container set it
handle_closing_keeping_is_list(e, idx, F) ==
    IF e.depth = 0 THEN fail(e, DepthBelowZero(idx))
    ELSE LET d == e.depth - 1
             e1 == [e EXCEPT !.depth = d]
         IN IF pop_if_at_or_below(e.stack, d)
            THEN LET stack_frame == e.stack[Len(e.stack)]
                     e2 == [e1 EXCEPT !.stack = SubSeq(@, 1, Len(@) - 1),
                                      !.state = stack_frame.state]
                 IN IF F.unique_labels /\ is_unitary(automaton, e2.state)
                    THEN skip_unique(e2)
                    ELSE close_masks(e2)
            ELSE close_masks(e1)

\* Executor::handle_closing
handle_closing(e, idx, F) ==
    IF e.depth = 0 THEN fail(e, DepthBelowZero(idx))
    ELSE LET d == e.depth - 1
             e1 == [e EXCEPT !.depth = d]
         IN IF pop_if_at_or_below(e.stack, d)
            THEN LET stack_frame == e.stack[Len(e.stack)]
                     e2 == [e1 EXCEPT !.stack = SubSeq(@, 1, Len(@) - 1),
                                      !.state = stack_frame.state,
                                      !.is_list = stack_frame.is_list]
                 IN IF F.unique_labels /\ is_unitary(automaton, e2.state)
                    THEN skip_unique(e2)
                    ELSE close_masks(e2)
            ELSE close_masks(e1)

\* Executor::verify_subtree_closed
verify_subtree_closed(e) ==
    IF e.depth # 0 THEN fail(e, MissingClosingCharacter) ELSE fail(e, Ok)

\* take_event leaving the lookahead in place (without line 170)
take_event_keeping(e) ==
    IF e.next_event.kind # "None"
    THEN [ev |-> e.next_event, e |-> e]
    ELSE LET la == ClassifierNext(e.pos, e.colons_on, e.commas_on)
         IN [ev |-> la.ev, e |-> [e EXCEPT !.pos = la.pos]]

\* The event of the next iteration of run_on_subtree's loop: the lookahead if
\* there is one, else the classifier's next event.
\* [ev |-> the event, e |-> the executor with the event taken]
take_event(e) ==
    IF e.next_event.kind # "None"
    THEN [ev |-> e.next_event, e |-> [e EXCEPT !.next_event = NoEvent]]
    ELSE LET la == ClassifierNext(e.pos, e.colons_on, e.commas_on)
         IN [ev |-> la.ev, e |-> [e EXCEPT !.pos = la.pos]]

\* the Closing arm of run_on_subtree: the walk ends when the depth is back to 0
closing_arm(e, idx, F) ==
    LET e1 == handle_closing(e, idx, F)
    IN IF e1.outcome.kind = "Running" /\ e1.depth = 0
       THEN verify_subtree_closed(e1)
       ELSE e1

\* One iteration of the loop of run_on_subtree; run_and_exit's
\* verify_subtree_closed once the loop has ended.
step(e, F) ==
    LET t == take_event(e)
    IN CASE t.ev.kind = "None" -> verify_subtree_closed(t.e)
         [] t.ev.kind = "Colon" -> handle_colon(t.e, t.ev.idx, F)
         [] t.ev.kind = "Comma" -> handle_comma(t.e, t.ev.idx, F)
         [] t.ev.kind = "Opening" -> handle_opening(t.e, t.ev.idx, F)
         [] t.ev.kind = "Closing" -> closing_arm(t.e, t.ev.idx, F)

RECURSIVE run_and_exit(_, _)
\* Executor::run_and_exit from executor e: the executor when the run has returned
run_and_exit(e, F) ==
    IF e.outcome.kind # "Running" THEN e ELSE run_and_exit(step(e, F), F)

RECURSIVE FirstBracket(_)
\* the first offset >= i holding an opening bracket, -1 when there is none
FirstBracket(i) ==
    IF i >= Len(bytes) THEN -1
    ELSE IF At(i) \in {"{", "["} THEN i
    ELSE FirstBracket(i + 1)
\* empty_query classifying the bytes without the quote classifier
empty_query_unquoted ==
    IF FirstBracket(0) # -1 THEN <<FirstBracket(0)>> ELSE <<>>

\* empty_query looking at the second structural event instead of the first
empty_query_second ==
    LET first == ClassifierNext(0, FALSE, FALSE)
        second == ClassifierNext(first.pos, FALSE, FALSE).ev
    IN IF is_opening(second) THEN <<second.idx>> ELSE <<>>

\* engine::main::empty_query
empty_query ==
    LET first == ClassifierNext(0, FALSE, FALSE).ev
    IN IF is_opening(first) THEN <<first.idx>> ELSE <<>>

\* MainEngine::run built with features F: [result, outcome]
run(F) ==
    IF is_empty_query(automaton)
    THEN [result |-> empty_query, outcome |-> Ok]
    ELSE LET e == run_and_exit(query_executor, F)
         IN [result |-> e.result, outcome |-> e.outcome]

-----------------------------------------------------------------------------
(* The state machine *)

Exec ==
    [depth |-> depth, state |-> state, stack |-> stack, next_event |-> next_event,
     is_list |-> is_list, pos |-> pos, colons_on |-> colons_on,
     commas_on |-> commas_on, result |-> result, outcome |-> outcome]

Becomes(e) ==
    /\ depth' = e.depth
    /\ state' = e.state
    /\ stack' = e.stack
    /\ next_event' = e.next_event
    /\ is_list' = e.is_list
    /\ pos' = e.pos
    /\ colons_on' = e.colons_on
    /\ commas_on' = e.commas_on
    /\ result' = e.result
    /\ outcome' = e.outcome
    /\ UNCHANGED <<bytes, tree, members, automaton, features, suspended,
                   quote_classifier, structural_mask, depth_classifier, depth_benchmark,
                   input>>

\* every JSON value of at most MaxNodes nodes over the keys a, b, in every style
Docs == {Doc(t, s) : t \in UNION {Trees(n) : n \in 1..MaxNodes}, s \in Styles}

Lx == <<"x">>
Ly == <<"y">>
Lc == <<"c">>
Laa == <<"a", "a">>
LEscaped == <<"b", BSLASH, QUOTE, "a">>
Num(d) == Scalar(<<d>>)
Str(chars) == Scalar(Q(chars))

\* objects whose keys end like the label a, or are empty, with string and container values
KeyDocs ==
    LET keys == {La, Laa, LEscaped, <<>>}
        vals == {Num("1"), Scalar(StrTricky), Arr(<<>>), Obj(<<La>>, <<Num("1")>>)}
    IN {Doc(Obj(<<k, La>>, <<v, w>>), s) : k \in keys, v \in vals, w \in vals, s \in Styles}

\* deeper values: a member under two enclosing members of the same key, members
\* inside lists of lists
NestedDocs ==
    LET one == Obj(<<La>>, <<Obj(<<La, Lb>>,
                                 <<Obj(<<Lb>>, <<Num("1")>>),
                                   Arr(<<Obj(<<Lb>>, <<Num("2")>>)>>)>>)>>)
        two == Arr(<<Obj(<<La>>,
                         <<Arr(<<Obj(<<Lb>>, <<Num("1")>>),
                                 Arr(<<Num("2"),
                                       Obj(<<Lb>>, <<Obj(<<La>>, <<Num("3")>>)>>)>>)>>)>>),
                     Obj(<<Lb>>, <<Num("4")>>)>>)
    IN {Doc(t, s) : t \in {one, two}, s \in Styles}

\* the end-to-end scenarios
Scenario1 == Doc(Obj(<<La, Lb>>, <<Num("1"), Obj(<<La>>, <<Num("2")>>)>>), "compact")
Scenario2 ==
    Doc(Obj(<<La>>, <<Obj(<<Lb, Lc>>, <<Num("1"), Obj(<<Lb>>, <<Num("2")>>)>>)>>), "compact")
Scenario3 ==
    Doc(Obj(<<Ly>>, <<Obj(<<Lx>>, <<Arr(<<Num("1"), Num("2"), Num("3")>>)>>)>>), "compact")
Scenario4 ==
    Doc(Obj(<<Lx>>, <<Arr(<<Scalar(<<"1", "0">>), Scalar(<<"2", "0">>),
                            Scalar(<<"3", "0">>)>>)>>), "compact")
Scenario5 == Doc(Str(<<BSLASH, QUOTE, "a", BSLASH, QUOTE, ":", "1">>), "compact")
EmptyDoc == [bytes |-> <<>>, tree |-> NoTree, members |-> {}]

\* the document of the crate-level example (lib.rs, lines 20-37)
LPerson == <<"p", "e", "r", "s", "o", "n">>
LNumber == <<"n", "u", "m", "b", "e", "r">>
ReadmeDoc ==
    LET phone(type, number) ==
            Obj(<<<<"t", "y", "p", "e">>, LNumber>>, <<Str(type), Str(number)>>)
    IN Doc(Obj(<<LPerson>>,
               <<Obj(<<<<"n", "a", "m", "e">>, <<"s", "u", "r", "n", "a", "m", "e">>,
                       <<"p", "h", "o", "n", "e", "N", "u", "m", "b", "e", "r", "s">>>>,
                     <<Str(<<"J", "o", "h", "n">>), Str(<<"D", "o", "e">>),
                       Arr(<<phone(<<"H", "o", "m", "e">>,
                                   <<"1", "1", "1", "-", "2", "2", "2", "-", "3", "3", "3">>),
                             phone(<<"W", "o", "r", "k">>,
                                   <<"1", "2", "3", "-", "4", "5", "6", "-", "7", "8", "9">>)>>)>>)>>),
           "pretty")

Scenarios ==
    {[doc |-> Scenario1, automaton |-> AutDescendant(La)],
     [doc |-> Scenario2, automaton |-> AutDescendantDescendant(La, Lb)],
     [doc |-> Scenario3, automaton |-> AutDescendant(Lx)],
     [doc |-> Scenario4, automaton |-> AutDescendantWildcard(Lx)],
     [doc |-> Scenario5, automaton |-> AutDescendant(La)],
     [doc |-> EmptyDoc, automaton |-> AutRoot],
     [doc |-> ReadmeDoc, automaton |-> AutRoot],
     [doc |-> ReadmeDoc, automaton |-> AutDescendantDescendant(LPerson, LNumber)]}

MaxStr == 2

\* the bodies of string literals of at most n units: escapes and structural bytes
RECURSIVE StringBodies(_)
StringBodies(n) ==
    IF n = 0 THEN {<<>>}
    ELSE LET units == {<<BSLASH, QUOTE>>, <<BSLASH, BSLASH>>, <<"{">>, <<"}">>, <<"[">>,
                       <<"]">>, <<":">>, <<",">>, <<"a">>}
         IN StringBodies(n - 1) \cup {u \o b : u \in units, b \in StringBodies(n - 1)}
NotJson(b) == [bytes |-> b, tree |-> NoTree, members |-> {}]
\* documents that are one string, and the same without the closing quote
StringDocs ==
    {Doc(Str(b), "compact") : b \in StringBodies(MaxStr)}
    \cup {NotJson(<<QUOTE>> \o b) : b \in StringBodies(MaxStr)}

\* the proper non-empty prefixes of document d
Truncations(d) == {NotJson(SubSeq(d.bytes, 1, n)) : n \in 1..(Len(d.bytes) - 1)}
TruncatedDocs ==
    UNION {Truncations(d) : d \in {Scenario1, Scenario2, Scenario3, Scenario4}}
\* a closing bracket with nothing to close, before or after a document
UnmatchedDocs ==
    LET small == {Doc(t, "compact") : t \in Trees(1) \cup Trees(2)}
    IN UNION {{NotJson(<<c>> \o d.bytes), NotJson(d.bytes \o <<c>>), NotJson(<<c>>)}
              : d \in small, c \in {"}", "]"}}

\* members whose key has no quotes, or only an opening one, at the top level and
\* inside a list
MalformedDocs ==
    LET keys == {<<>>, <<" ">>, <<"a">>, <<QUOTE, "a">>}
        vals == {<<"1">>, <<"{", "}">>, <<"[", "]">>}
        objs == {<<"{">> \o k \o <<":">> \o v \o <<"}">> : k \in keys, v \in vals}
    IN {NotJson(o) : o \in objs} \cup {NotJson(<<"[">> \o o \o <<"]">>) : o \in objs}

\* lists of three elements, every mix of a number, an empty list and an object
\* of one member, as the root and under the key a
ListDocs ==
    LET kinds == {Num("1"), Arr(<<>>), Obj(<<La>>, <<Num("2")>>)}
        lists == {Arr(<<x, y, z>>) : x \in kinds, y \in kinds, z \in kinds}
    IN {Doc(l, s) : l \in lists, s \in Styles}
           \cup {Doc(Obj(<<La>>, <<l>>), s) : l \in lists, s \in Styles}

\* a list holding an object of two members, the second a number, an empty list
\* or an empty object, as the root and under the key a
ObjectInListDocs ==
    LET vals == {Num("2"), Arr(<<>>), Obj(<<>>, <<>>)}
        lists == {Arr(<<Obj(<<La, Lb>>, <<Num("1"), v>>)>>) : v \in vals}
    IN {Doc(l, s) : l \in lists, s \in Styles}
           \cup {Doc(Obj(<<La>>, <<l>>), s) : l \in lists, s \in Styles}

\* the inputs and queries of the model
Cases ==
    {[doc |-> d, automaton |-> a] :
         d \in Docs \cup KeyDocs \cup NestedDocs \cup StringDocs \cup TruncatedDocs
                  \cup UnmatchedDocs \cup MalformedDocs \cup ListDocs
                  \cup ObjectInListDocs,
         a \in Automata}
    \cup Scenarios

\* what the state holds of the parts of the repository a run does not use
no_depth_block == [opening |-> NUL, idx |-> BlockSize, depth |-> 0, advanced |-> FALSE]
no_benchmark == [built |-> FALSE]
no_input == [built |-> FALSE]

InitWith(cases) ==
    /\ \E c \in cases :
          /\ bytes = c.doc.bytes
          /\ tree = c.doc.tree
          /\ members = c.doc.members
          /\ automaton = c.automaton
    /\ features \in Features
    /\ depth = query_executor.depth
    /\ state = query_executor.state
    /\ stack = query_executor.stack
    /\ next_event = query_executor.next_event
    /\ is_list = query_executor.is_list
    /\ pos = query_executor.pos
    /\ colons_on = query_executor.colons_on
    /\ commas_on = query_executor.commas_on
    /\ result = query_executor.result
    /\ outcome = query_executor.outcome
    /\ suspended = <<>>
    /\ quote_classifier = classify_quoted_sequences
    /\ structural_mask = {}
    /\ depth_classifier = no_depth_block
    /\ depth_benchmark = no_benchmark
    /\ input = no_input

Init == InitWith(Cases)

\* the loop of run_on_subtree going on to the next event after a handler's error
InLoop_past_errors == ~is_empty_query(automaton)

\* run_on_subtree's loop is running: no handler has returned an error (the `?` of
\* lines 173-180) and the walk has not ended
InLoop == outcome.kind = "Running" /\ ~is_empty_query(automaton)

\* MainEngine::run on the empty query
RunEmptyQuery ==
    /\ outcome.kind = "Running"
    /\ is_empty_query(automaton)
    /\ Becomes([Exec EXCEPT !.result = empty_query, !.outcome = Ok])

HandleColon ==
    /\ InLoop
    /\ take_event(Exec).ev.kind = "Colon"
    /\ Becomes(handle_colon(take_event(Exec).e, take_event(Exec).ev.idx, features))

HandleComma ==
    /\ InLoop
    /\ take_event(Exec).ev.kind = "Comma"
    /\ Becomes(handle_comma(take_event(Exec).e, take_event(Exec).ev.idx, features))

HandleOpening ==
    /\ InLoop
    /\ take_event(Exec).ev.kind = "Opening"
    /\ Becomes(handle_opening(take_event(Exec).e, take_event(Exec).ev.idx, features))

HandleClosing ==
    /\ InLoop
    /\ take_event(Exec).ev.kind = "Closing"
    /\ Becomes(closing_arm(take_event(Exec).e, take_event(Exec).ev.idx, features))

\* the classifier is exhausted: the loop ends and the subtree must be closed
EndOfInput ==
    /\ InLoop
    /\ take_event(Exec).ev.kind = "None"
    /\ Becomes(verify_subtree_closed(take_event(Exec).e))

Next ==
    \/ RunEmptyQuery
    \/ HandleColon
    \/ HandleComma
    \/ HandleOpening
    \/ HandleClosing
    \/ EndOfInput

Spec == Init /\ [][Next]_vars

\* The loop of run_on_subtree is sequential code: it goes on iterating until the
\* run has returned. This is WF_vars(Next), a run that has not returned having
\* a next iteration, written without ENABLED.
SpecLive == Init /\ [][Next]_vars /\ ([]<>(outcome.kind # "Running") \/ []<><<Next>>_vars)

-----------------------------------------------------------------------------
(* Inputs nested about as deep as the depth counter goes *)

MaxOver == 1

Rep(c, n) == [i \in 1..n |-> c]
\* n lists inside one another
Nest(n) == Rep("[", n) \o Rep("]", n)
Nested == [t |-> "nested", b |-> <<>>, k |-> <<>>, c |-> <<>>]
Member(colon, key) == [colon |-> colon, key |-> key, path |-> <<>>]
\* the documents of nesting depth n: lists alone, lists under the key a, lists
\* under the key b before a member a, lists after a first element, and the
\* opening brackets alone
DeepDocsOf(n) ==
    {[bytes |-> Nest(n), tree |-> Nested, members |-> {}],
     [bytes |-> <<"{">> \o Q(La) \o <<":">> \o Nest(n - 1) \o <<"}">>,
      tree |-> Nested, members |-> {Member(4, La)}],
     [bytes |-> <<"{">> \o Q(Lb) \o <<":">> \o Nest(n - 1) \o <<",">> \o Q(La)
                    \o <<":", "1", "}">>,
      tree |-> Nested, members |-> {Member(4, Lb), Member(2 * n + 7, La)}],
     [bytes |-> <<"[", "1", ",">> \o Nest(n - 1) \o <<"]">>,
      tree |-> Nested, members |-> {}],
     NotJson(Rep("[", n))}
DeepDocs == UNION {DeepDocsOf(n) : n \in (DepthLimit - 1)..(DepthLimit + MaxOver)}
DeepCases ==
    {[doc |-> d, automaton |-> a] :
         d \in DeepDocs, a \in {AutRoot, AutDescendant(La), AutChild(La), AutWildcard}}

InitDeep == InitWith(DeepCases)
SpecDeep == InitDeep /\ [][Next]_vars

-----------------------------------------------------------------------------
(* Two runs of one engine on separate threads *)

\* the run of this thread as another thread sees it
ThisRun == [bytes |-> bytes, tree |-> tree, members |-> members, exec |-> Exec]

\* a switch of threads that leaves the lookahead where it is, as if next_event
\* belonged to the engine and not to the executor of a run
Switch_keeping_lookahead ==
    /\ suspended # <<>>
    /\ bytes' = suspended[1].bytes
    /\ tree' = suspended[1].tree
    /\ members' = suspended[1].members
    /\ depth' = suspended[1].exec.depth
    /\ state' = suspended[1].exec.state
    /\ stack' = suspended[1].exec.stack
    /\ next_event' = next_event
    /\ is_list' = suspended[1].exec.is_list
    /\ pos' = suspended[1].exec.pos
    /\ colons_on' = suspended[1].exec.colons_on
    /\ commas_on' = suspended[1].exec.commas_on
    /\ result' = suspended[1].exec.result
    /\ outcome' = suspended[1].exec.outcome
    /\ suspended' = <<ThisRun>>
    /\ UNCHANGED <<automaton, features, quote_classifier, structural_mask,
                   depth_classifier, depth_benchmark, input>>

\* The other thread is scheduled: its run goes on from where it was, with its
\* own input, executor, classifier and result; the engine (the automaton) is
\* the one thing the two runs share.
Switch ==
    /\ suspended # <<>>
    /\ bytes' = suspended[1].bytes
    /\ tree' = suspended[1].tree
    /\ members' = suspended[1].members
    /\ depth' = suspended[1].exec.depth
    /\ state' = suspended[1].exec.state
    /\ stack' = suspended[1].exec.stack
    /\ next_event' = suspended[1].exec.next_event
    /\ is_list' = suspended[1].exec.is_list
    /\ pos' = suspended[1].exec.pos
    /\ colons_on' = suspended[1].exec.colons_on
    /\ commas_on' = suspended[1].exec.commas_on
    /\ result' = suspended[1].exec.result
    /\ outcome' = suspended[1].exec.outcome
    /\ suspended' = <<ThisRun>>
    /\ UNCHANGED <<automaton, features, quote_classifier, structural_mask,
                   depth_classifier, depth_benchmark, input>>

\* the inputs of the two runs
SharedDocs ==
    {Scenario1, Scenario2, NotJson(SubSeq(Scenario2.bytes, 1, 10)),
     NotJson(<<"{", ":", "1", "}">>), NotJson(<<"]">>),
     Doc(Arr(<<Num("1"), Obj(<<La>>, <<Num("2")>>)>>), "spaced")}

\* MainEngine::run called twice on one engine, each call with its own input
InitShared ==
    /\ automaton \in Automata
    /\ features \in Features
    /\ \E d \in SharedDocs : bytes = d.bytes /\ tree = d.tree /\ members = d.members
    /\ depth = query_executor.depth
    /\ state = query_executor.state
    /\ stack = query_executor.stack
    /\ next_event = query_executor.next_event
    /\ is_list = query_executor.is_list
    /\ pos = query_executor.pos
    /\ colons_on = query_executor.colons_on
    /\ commas_on = query_executor.commas_on
    /\ result = query_executor.result
    /\ outcome = query_executor.outcome
    /\ \E d \in SharedDocs :
          suspended = <<[bytes |-> d.bytes, tree |-> d.tree, members |-> d.members,
                         exec |-> query_executor]>>
    /\ quote_classifier = classify_quoted_sequences
    /\ structural_mask = {}
    /\ depth_classifier = no_depth_block
    /\ depth_benchmark = no_benchmark
    /\ input = no_input

NextShared == Next \/ Switch
SpecShared == InitShared /\ [][NextShared]_vars

-----------------------------------------------------------------------------
(* The quote classifier alone *)

\* the document of the example of the quotes module, and its mask as the
\* example writes it, first byte first
QuotesExample ==
    <<"{">> \o Q(<<"x">>) \o <<":", " ">> \o Q(<<"s", "t", "r", "i", "n", "g">>)
        \o <<",", " ">> \o Q(<<"y">>) \o <<":", " ", "{">> \o Q(<<"z">>) \o <<":", " ">>
        \o Q(<<BSLASH, QUOTE, "e", "s", "c", "a", "p", "e", "d", BSLASH, QUOTE>>)
        \o <<"}", "}">>
QuotesExampleMask ==
    <<0,1,1,0,0,0,1,1,1,1,1,1,1,0,0,0,1,1,0,0,0,0,1,1,0,0,0,1,1,1,1,1,1,1,1,1,1,1,1,0,0,0>>

\* the blanks before a document that bring it near the end of the first block
Margins == {0} \cup ((BlockSize - 5)..BlockSize)
\* strings, closed and left open, after a margin of blanks; strings longer than
\* a block; the example
QuoteDocs ==
    LET texts == {<<QUOTE>> \o b \o <<QUOTE>> : b \in StringBodies(MaxStr)}
                     \cup {<<QUOTE>> \o b : b \in StringBodies(MaxStr)}
                     \cup {<<BSLASH>> \o b : b \in StringBodies(MaxStr)}
        long == {Rep(" ", m) \o <<QUOTE>> \o Rep("a", BlockSize + n) \o b \o <<QUOTE, ":">>
                     : m \in {0, BlockSize - 1}, n \in 0..1,
                       b \in {<<>>, <<BSLASH, QUOTE>>, <<BSLASH, BSLASH>>}}
    IN {NotJson(Rep(" ", m) \o t) : m \in Margins, t \in texts}
           \cup {NotJson(l) : l \in long} \cup {NotJson(QuotesExample)}

InitQuotes ==
    /\ InitWith({[doc |-> d, automaton |-> AutRoot] : d \in QuoteDocs})
    /\ features = NoFeatures

\* the quote classifier yields its next block
QuoteNext ==
    /\ get_offset(quote_classifier) < Len(bytes)
    /\ quote_classifier' = quotes_next(quote_classifier)
    /\ UNCHANGED <<bytes, tree, members, automaton, features, depth, state, stack,
                   next_event, is_list, pos, colons_on, commas_on, result, outcome,
                   suspended, structural_mask, depth_classifier, depth_benchmark, input>>

NextQuotes == QuoteNext
SpecQuotes == InitQuotes /\ [][NextQuotes]_vars

-----------------------------------------------------------------------------
(* The structural classifier alone *)

\* the skipping example of the depth classifier: the rest of an object entered
\* at depth 1, followed by a second object
DepthExample ==
    <<NL>> \o Rep(" ", 4) \o <<QUOTE, "a", QUOTE, ":", " ", "[">>
        \o <<NL>> \o Rep(" ", 8) \o <<"4", "2", ",">>
        \o <<NL>> \o Rep(" ", 8) \o <<"{">>
        \o <<NL>> \o Rep(" ", 12) \o <<QUOTE, "b", QUOTE, ":", " ", "{", "}", ",">>
        \o <<NL>> \o Rep(" ", 12) \o <<QUOTE, "c", QUOTE, ":", " ", "{", "}">>
        \o <<NL>> \o Rep(" ", 8) \o <<"}", ",">>
        \o <<NL>> \o Rep(" ", 8) \o <<"4", "4">>
        \o <<NL>> \o Rep(" ", 4) \o <<"]", ",">>
        \o <<NL>> \o Rep(" ", 4) \o <<QUOTE, "b", QUOTE, ":", " ", "{">>
        \o <<NL>> \o Rep(" ", 8) \o <<QUOTE, "c", QUOTE, ":", " ", QUOTE, "v", "a", "l", "u", "e", QUOTE>>
        \o <<NL>> \o Rep(" ", 4) \o <<"}">>
        \o <<NL>> \o <<"}", "{", QUOTE, "t", "a", "r", "g", "e", "t", QUOTE, ":", "t", "r", "u", "e", "}">>
\* document d after a margin of m blanks
Shifted(d, m) ==
    [bytes |-> Rep(" ", m) \o d.bytes, tree |-> d.tree,
     members |-> {[x EXCEPT !.colon = @ + m] : x \in d.members}]
\* documents with every kind of structural byte, inside strings too, after
\* margins that bring them across the end of the first block; a document of
\* several blocks; the example
StructuralDocs ==
    {Shifted(d, m) : d \in KeyDocs \cup NestedDocs, m \in Margins}
        \cup {ReadmeDoc, NotJson(DepthExample)}

InitStructural ==
    /\ InitWith({[doc |-> d, automaton |-> AutRoot] : d \in StructuralDocs})
    /\ features = NoFeatures

\* the structural classifier of the state
structural_classifier ==
    [q |-> quote_classifier, mask |-> structural_mask,
     colons |-> colons_on, commas |-> commas_on]
ClassifierBecomes(c) ==
    /\ quote_classifier' = c.q
    /\ structural_mask' = c.mask
    /\ colons_on' = c.colons
    /\ commas_on' = c.commas
    /\ UNCHANGED <<bytes, tree, members, automaton, features, depth, state, stack,
                   is_list, result, outcome, suspended, depth_classifier,
                   depth_benchmark, input>>

\* classifier.next(): the event is kept in next_event, and pos follows it
StructuralNext ==
    /\ structural_mask # {} \/ get_offset(quote_classifier) < Len(bytes)
    /\ LET r == structural_next(structural_classifier)
       IN /\ ClassifierBecomes(r.c)
          /\ next_event' = r.ev
          /\ pos' = IF r.ev.kind = "None" THEN Len(bytes) ELSE r.ev.idx + 1

\* the executor changes the masks at the offset of the event it is handling,
\* which is the last one yielded or the close a skip has returned
TurnColonsOn ==
    /\ pos > 0
    /\ ~colons_on
    /\ ClassifierBecomes(turn_colons_on(structural_classifier, pos - 1))
    /\ UNCHANGED <<next_event, pos>>
TurnColonsOff ==
    /\ pos > 0
    /\ colons_on
    /\ ClassifierBecomes(turn_colons_off(structural_classifier))
    /\ UNCHANGED <<next_event, pos>>
TurnCommasOn ==
    /\ pos > 0
    /\ ~commas_on
    /\ ClassifierBecomes(turn_commas_on(structural_classifier, pos - 1))
    /\ UNCHANGED <<next_event, pos>>
TurnCommasOff ==
    /\ pos > 0
    /\ commas_on
    /\ ClassifierBecomes(turn_commas_off(structural_classifier))
    /\ UNCHANGED <<next_event, pos>>

\* classifier.skip(opening) from where the classifier stands; the close is not
\* an event of the classifier, which resumes after it
SkipContainer(opening) ==
    /\ pos < Len(bytes)
    /\ LET r == skip(structural_classifier, pos, opening)
       IN /\ ClassifierBecomes(r.c)
          /\ pos' = IF r.idx < Len(bytes) THEN r.idx + 1 ELSE Len(bytes)
    /\ UNCHANGED next_event

NextStructural ==
    \/ StructuralNext
    \/ TurnColonsOn
    \/ TurnColonsOff
    \/ TurnCommasOn
    \/ TurnCommasOff
    \/ \E opening \in {"{", "["} : SkipContainer(opening)
SpecStructural == InitStructural /\ [][NextStructural]_vars

-----------------------------------------------------------------------------
(* Arbitrary byte buffers *)

MaxTokens == 4

Tokens ==
    {<<"{">>, <<"}">>, <<"[">>, <<"]">>, <<":">>, <<",">>, <<QUOTE>>, <<BSLASH>>,
     <<" ">>, <<"a">>, Q(La)}
RECURSIVE TokenStrings(_)
\* the concatenations of at most n tokens
TokenStrings(n) ==
    IF n = 0 THEN {<<>>}
    ELSE LET shorter == TokenStrings(n - 1)
         IN shorter \cup {t \o b : t \in Tokens, b \in shorter}
\* every buffer of at most MaxTokens tokens, JSON or not (no value tree is attached)
ByteDocs == {NotJson(b) : b \in TokenStrings(MaxTokens)}
ByteCases ==
    {[doc |-> d, automaton |-> a] :
         d \in ByteDocs, a \in {AutRoot, AutDescendant(La), AutChild(La), AutWildcard}}

InitBytes == InitWith(ByteCases)
SpecBytes == InitBytes /\ [][Next]_vars

-----------------------------------------------------------------------------
(* The depth classifier alone *)

\* the first example of the depth module: a list with its close marked C, then
\* an unmatched brace
DepthListExample ==
    <<"[", "4", "2", ",", " ", "{">> \o Q(Lb) \o <<":", "[", "[", "]", "]", ",">>
        \o Q(<<"c">>) \o <<":", "{", "}", "}", ",", " ", "4", "4", "]", "}">>
\* the documents of the structural classifier, the two examples, and every
\* buffer of fewer than MaxTokens tokens at the start and at the end of a block
DepthDocs ==
    StructuralDocs \cup {NotJson(DepthListExample)}
        \cup {NotJson(Rep(" ", m) \o t) : m \in {0, BlockSize - 2},
                                            t \in TokenStrings(MaxTokens - 1)}

InitDepth ==
    /\ InitWith({[doc |-> d, automaton |-> AutRoot] : d \in DepthDocs})
    /\ features = NoFeatures

DepthUnchanged ==
    UNCHANGED <<bytes, tree, members, automaton, features, depth, state, stack,
                next_event, is_list, pos, colons_on, commas_on, result, outcome,
                suspended, structural_mask, depth_benchmark, input>>

\* classify_depth(quote_classifier, opening)
ClassifyDepth(opening) ==
    /\ depth_classifier = no_depth_block
    /\ depth_classifier' = classify_depth(opening)
    /\ UNCHANGED quote_classifier
    /\ DepthUnchanged
\* depth_classifier.next(), add_depth(current_depth)
DepthNext ==
    /\ depth_classifier # no_depth_block
    /\ get_offset(quote_classifier) < Len(bytes)
    /\ quote_classifier' = quotes_next(quote_classifier)
    /\ depth_classifier' = depth_next(quote_classifier, depth_classifier)
    /\ DepthUnchanged
\* vector.advance_to_next_depth_decrease()
DepthAdvance ==
    /\ depth_classifier # no_depth_block
    /\ depth_classifier.idx < BlockSize
    /\ depth_classifier' = advance_to_next_depth_decrease(quote_classifier, depth_classifier)
    /\ UNCHANGED quote_classifier
    /\ DepthUnchanged

NextDepth ==
    \/ \E opening \in {"{", "["} : ClassifyDepth(opening)
    \/ DepthNext
    \/ DepthAdvance
SpecDepth == InitDepth /\ [][NextDepth]_vars

-----------------------------------------------------------------------------
(* The depth blocks of the benchmark crate under their test *)

\* the inputs of is_depth_greater_or_equal_to_correctness_suite and the depths
\* it expects at each position
Suite1Json ==
    <<"{", QUOTE, "a", "a", "a", QUOTE, ":", "[", "{", "}", ",", "{", QUOTE, "b",
      QUOTE, ":", "{", QUOTE, "c", QUOTE, ":", "[", "1", ",", "2", ",", "3", "]",
      "}", "}", "]", "}">>
Suite1Depths ==
    <<1, 1, 1, 1, 1, 1, 1, 2, 3, 2, 2, 3, 3, 3, 3, 3, 4, 4, 4, 4, 4, 5, 5, 5, 5, 5,
      5, 4, 3, 2, 1, 0>>
Suite2Json ==
    <<"{", "}">>
Suite2Depths ==
    <<1, 0>>
Suite3Json ==
    <<>>
Suite3Depths ==
    <<>>
Suite4Json ==
    <<"{", QUOTE, "a", "a", "a", QUOTE, ":", "[", "{", "}", ",", "{", QUOTE, "b",
      QUOTE, ":", "{", QUOTE, "c", QUOTE, ":", "[", "1", ",", "2", ",", "3", "]",
      "}", "}", "]", ",", QUOTE, "e", QUOTE, ":", "{", QUOTE, "a", QUOTE, ":", "[",
      "[", "]", ",", "[", "1", ",", "2", ",", "3", "]", ",", "[", "{", QUOTE, "b",
      QUOTE, ":", "[", "{", "}", "]", "}", "]", "]", "}", ",", QUOTE, "d", QUOTE,
      ":", "4", "2", "}">>
Suite4Depths ==
    <<1, 1, 1, 1, 1, 1, 1, 2, 3, 2, 2, 3, 3, 3, 3, 3, 4, 4, 4, 4, 4, 5, 5, 5, 5, 5,
      5, 4, 3, 2, 1, 1, 1, 1, 1, 1, 2, 2, 2, 2, 2, 3, 4, 3, 3, 4, 4, 4, 4, 4, 4, 3,
      3, 4, 5, 5, 5, 5, 5, 6, 7, 6, 5, 4, 3, 2, 1, 1, 1, 1, 1, 1, 1, 1, 0>>
Suite == {<<Suite1Json, Suite1Depths>>, <<Suite2Json, Suite2Depths>>,
          <<Suite3Json, Suite3Depths>>, <<Suite4Json, Suite4Depths>>}

\* the bytes a SIMD depth block decorates
SimdBlockSize == 32
\* the implementations the suite is run with: the sequential one decorates the
\* whole slice, the SIMD ones one block of it
DepthBlockImpls == {"nosimd::Vector", "avx2::Avx2Vector", "avx2::LazyAvx2Vector"}

\* the change of depth byte c makes: both bracket kinds count, and the blocks
\* of this crate know no strings
depth_change(c) == IF c \in {"{", "["} THEN 1 ELSE IF c \in {"}", "]"} THEN -1 ELSE 0
RECURSIVE depth_over(_, _)
\* the depth the bytes from..to - 1 add up to
depth_over(from, to) ==
    IF from >= to THEN 0 ELSE depth_over(from, to - 1) + depth_change(At(to - 1))

\* A block is [impl, start |-> the offset of its first byte, len, position |-> the
\* position of the cursor in it, ...].
\* DepthBlock::new(bytes) on the slice from offset start on
bench_new(impl, start) ==
    LET rest == Len(bytes) - start
    IN [built |-> TRUE, impl |-> impl, start |-> start,
        len |-> IF impl = "nosimd::Vector" \/ rest < SimdBlockSize THEN rest
                ELSE SimdBlockSize,
        position |-> 0]
\* is_depth_greater_or_equal_to that leaves out the byte under the cursor
is_depth_greater_or_equal_to_before(b, d) ==
    depth_over(b.start, b.start + b.position) >= d
\* DepthBlock::is_depth_greater_or_equal_to(depth): the depth at the current
\* position, the byte there included, relative to the start of the block
is_depth_greater_or_equal_to(b, d) ==
    depth_over(b.start, b.start + b.position + 1) >= d
\* DepthBlock::advance: [moved, b]
bench_advance(b) ==
    IF b.position + 1 < b.len
    THEN [moved |-> TRUE, b |-> [b EXCEPT !.position = @ + 1]]
    ELSE [moved |-> FALSE, b |-> b]
\* DepthBlock::depth_at_end
bench_depth_at_end(b) == depth_over(b.start, b.start + b.len)

\* the depths the test is called with for the input: those of the suite, and
\* for any other input the brackets opened less those closed up to each byte
BenchDepths ==
    IF \E s \in Suite : s[1] = bytes
    THEN (CHOOSE s \in Suite : s[1] = bytes)[2]
    ELSE [i \in 1..Len(bytes) |-> depth_over(0, i)]

\* the suite's inputs and every buffer of at most MaxTokens - 2 tokens, at the
\* start of the slice and across the end of a SIMD block
BenchDocs ==
    {NotJson(s[1]) : s \in Suite}
        \cup {NotJson(Rep("[", m) \o t) : m \in {0, SimdBlockSize - 1},
                                          t \in TokenStrings(MaxTokens - 2)}

InitBenchmark ==
    /\ InitWith({[doc |-> d, automaton |-> AutRoot] : d \in BenchDocs})
    /\ features = NoFeatures

BenchUnchanged ==
    UNCHANGED <<bytes, tree, members, automaton, features, depth, state, stack,
                next_event, is_list, pos, colons_on, commas_on, result, outcome,
                suspended, quote_classifier, structural_mask, depth_classifier, input>>

\* The test keeps depths_idx, accumulated_depth and the block it walks
\* (in_block); failed is set when one of its three assertions fails.
\* let (mut vector, rem) = build(bytes)
BenchBuild(impl) ==
    /\ \/ depth_benchmark = no_benchmark
       \/ /\ depth_benchmark.built /\ ~depth_benchmark.in_block /\ ~depth_benchmark.failed
          /\ impl = depth_benchmark.block.impl
    /\ LET start == IF depth_benchmark = no_benchmark THEN 0
                    ELSE depth_benchmark.block.start + depth_benchmark.block.len
       IN /\ start < Len(bytes)
          /\ depth_benchmark' =
                 [built |-> TRUE, in_block |-> TRUE, failed |-> FALSE,
                  block |-> bench_new(impl, start),
                  depths_idx |-> IF depth_benchmark = no_benchmark THEN 0
                                 ELSE depth_benchmark.depths_idx,
                  accumulated_depth |-> IF depth_benchmark = no_benchmark THEN 0
                                        ELSE depth_benchmark.accumulated_depth]
    /\ BenchUnchanged
\* one turn of the inner loop: the three assertions, depths_idx += 1, advance;
\* after the last position accumulated_depth += vector.depth_at_end()
BenchLoop ==
    /\ depth_benchmark.built /\ depth_benchmark.in_block /\ ~depth_benchmark.failed
    /\ LET b == depth_benchmark.block
           adjusted_depth == BenchDepths[depth_benchmark.depths_idx + 1]
                                 - depth_benchmark.accumulated_depth
           holds == /\ is_depth_greater_or_equal_to(b, adjusted_depth)
                    /\ is_depth_greater_or_equal_to(b, adjusted_depth - 1)
                    /\ ~is_depth_greater_or_equal_to(b, adjusted_depth + 1)
           a == bench_advance(b)
       IN depth_benchmark' =
              IF ~holds THEN [depth_benchmark EXCEPT !.failed = TRUE]
              ELSE IF a.moved
              THEN [depth_benchmark EXCEPT !.block = a.b, !.depths_idx = @ + 1]
              ELSE [depth_benchmark EXCEPT
                        !.depths_idx = @ + 1, !.in_block = FALSE,
                        !.accumulated_depth = @ + bench_depth_at_end(b)]
    /\ BenchUnchanged

NextBenchmark ==
    \/ \E impl \in DepthBlockImpls : BenchBuild(impl)
    \/ BenchLoop
SpecBenchmark == InitBenchmark /\ [][NextBenchmark]_vars

-----------------------------------------------------------------------------
(* Input::new of the simdpath crate *)

\* alignment::TwoSimdBlocks::size()
TwoSimdBlocksSize == 64
\* the longest source: two whole two-block units and a byte
MaxSource == 2 * TwoSimdBlocksSize + 1

\* the padding a source already a multiple of the size long would get if the
\* remainder were not tested
pad_without_test(len) == TwoSimdBlocksSize - (len % TwoSimdBlocksSize)
\* rem, pad
pad(len) ==
    LET rem == len % TwoSimdBlocksSize
    IN IF rem = 0 THEN 0 ELSE TwoSimdBlocksSize - rem
\* std::iter::repeat('\0').take(pad + size)
extension(len) == Rep(NUL, pad(len) + TwoSimdBlocksSize)
\* Input::new(src), built with or without the simd feature
input_new(src, simd) ==
    IF simd
    THEN LET contents == src \o extension(Len(src))
         IN [built |-> TRUE, simd |-> TRUE, bytes |-> contents,
             aligned |-> Len(contents) % TwoSimdBlocksSize = 0]
    ELSE [built |-> TRUE, simd |-> FALSE, bytes |-> src, aligned |-> TRUE]

\* sources of every length up to MaxSource, and the token buffers
Sources ==
    {NotJson(Rep("a", n)) : n \in 0..MaxSource}
        \cup {NotJson(Rep(" ", m) \o t) : m \in {0, TwoSimdBlocksSize - 1},
                                          t \in TokenStrings(MaxTokens - 2)}

InitInput ==
    /\ InitWith({[doc |-> d, automaton |-> AutRoot] : d \in Sources})
    /\ features = NoFeatures

InputUnchanged ==
    UNCHANGED <<bytes, tree, members, automaton, features, depth, state, stack,
                next_event, is_list, pos, colons_on, commas_on, result, outcome,
                suspended, quote_classifier, structural_mask, depth_classifier,
                depth_benchmark>>

\* let input = Input::new(src)
InputNew(simd) ==
    /\ input = no_input
    /\ input' = input_new(bytes, simd)
    /\ InputUnchanged

NextInput == \E simd \in BOOLEAN : InputNew(simd)
SpecInput == InitInput /\ [][NextInput]_vars

-----------------------------------------------------------------------------
(* Properties of finished runs *)

Done == outcome.kind # "Running"
ValidJson == tree.t # "none"
SetOf(s) == {s[i] : i \in 1..Len(s)}
StrictlyIncreasing(s) == \A i \in 1..(Len(s) - 1) : s[i] < s[i + 1]
\* the labels the queries of the model select
Labels == {La, Lb, Lx, LPerson, LNumber}

\* C1: on valid JSON, the query $..l reports exactly the colon offsets of the
\* members whose key is l, wherever they are nested, each once and in increasing
\* order, and the run returns Ok.
C1_DescendantReportsMemberColons ==
    \A l \in Labels :
        (Done /\ ValidJson /\ automaton = AutDescendant(l))
            => /\ outcome = Ok
               /\ SetOf(result) = {m.colon : m \in {n \in members : n.key = l}}
               /\ StrictlyIncreasing(result)

\* $..a on {"a":1,"b":{"a":2}} has finished with the colons 4 and 15 reported
C1_Witness ==
    /\ Done
    /\ bytes = Scenario1.bytes
    /\ automaton = AutDescendant(La)
    /\ result = <<4, 15>>

\* C2: on valid JSON, the query $..l..m reports the colon of a member keyed m
\* exactly when some member enclosing it is keyed l, each such colon once; on the
\* document of the crate-level example $..person..number reports two offsets.
C2_NestedDescendantReportsOnce ==
    \A l \in Labels, m \in Labels :
        (Done /\ ValidJson /\ automaton = AutDescendantDescendant(l, m))
            => /\ outcome = Ok
               /\ SetOf(result) =
                      {n.colon : n \in {k \in members : k.key = m /\ l \in SetOf(k.path)}}
               /\ StrictlyIncreasing(result)
               /\ (bytes = ReadmeDoc.bytes /\ l = LPerson /\ m = LNumber
                       => Len(result) = 2)

\* $..person..number has finished on the crate-level example with both number
\* members reported
C2_Witness ==
    /\ Done
    /\ bytes = ReadmeDoc.bytes
    /\ automaton = AutDescendantDescendant(LPerson, LNumber)
    /\ Len(result) = 2
    /\ \A i \in 1..2 : At(result[i]) = ":"

\* C3: $..x[*] on {"x":[10,20,30]} reports every element of the list at the
\* offset of its first byte: exactly 6, 9 and 12.
C3_ElementsReportedAtFirstByte ==
    (Done /\ bytes = Scenario4.bytes /\ automaton = AutDescendantWildcard(Lx))
        => result = <<6, 9, 12>>

RECURSIVE RefBackslashRun(_)
RefBackslashRun(j) ==
    IF j > 0 /\ At(j - 1) = BSLASH THEN 1 + RefBackslashRun(j - 1) ELSE 0
RefUnescapedQuote(j) == At(j) = QUOTE /\ RefBackslashRun(j) % 2 = 0
RefInString(i) == Cardinality({j \in 0..(i - 1) : RefUnescapedQuote(j)}) % 2 = 1
StructuralBytes == {"{", "}", "[", "]", ":", ","}
AllStructuralInStrings ==
    \A i \in 0..(Len(bytes) - 1) : At(i) \in StructuralBytes => RefInString(i)

\* C5: a byte inside a string literal is never a structural event and never
\* causes a report: when every { } [ ] : , of the input lies inside a string, the
\* classifier yields no event and nothing is ever reported, whatever the query;
\* on valid JSON no event taken and no offset reported lies inside a string.
C5_StringBytesAreNotStructural ==
    /\ AllStructuralInStrings
           => /\ ClassifierNext(0, TRUE, TRUE).ev = NoEvent
              /\ result = <<>>
    /\ ValidJson
           => /\ \A i \in 1..Len(result) : ~RefInString(result[i])
              /\ InLoop /\ take_event(Exec).ev.kind # "None"
                     => ~RefInString(take_event(Exec).ev.idx)

\* $..a has finished on the string "\"a\":1", whose colon is inside the string,
\* with nothing reported
C5_Witness ==
    /\ Done
    /\ automaton = AutDescendant(La)
    /\ bytes = Scenario5.bytes
    /\ \E i \in 0..(Len(bytes) - 1) : At(i) = ":" /\ RefInString(i)
    /\ result = <<>>

\* C6: within one run the offsets passed to report never decrease: each report
\* is at an offset >= the one reported before it.
C6_ReportsNonDecreasing ==
    \A i \in 1..(Len(result) - 1) : result[i] <= result[i + 1]

\* a report made by the Opening handler at the colon of a container-valued
\* member follows a report of a smaller offset
C6_Witness ==
    /\ Len(result) >= 2
    /\ LET r == result[Len(result)]
           v == FirstNonWhitespace(r + 1, Len(bytes))
       IN /\ At(r) = ":"
          /\ v # -1
          /\ At(v) \in {"{", "["}
          /\ result[Len(result) - 1] < r

\* the engine built without tail-skip and without unique-labels

\* C7 as stated: on every valid JSON input and for every automaton, a finished
\* run reports the same set of offsets as the engine built without tail-skip and
\* unique-labels.
C7_FeaturesKeepReports ==
    (Done /\ ValidJson) => SetOf(result) = SetOf(run(NoFeatures).result)

RECURSIVE UniqueKeys(_)
\* no object of value t has two members with the same key
UniqueKeys(t) ==
    /\ \A i \in 1..Len(t.k), j \in 1..Len(t.k) : t.k[i] = t.k[j] => i = j
    /\ \A i \in 1..Len(t.c) : UniqueKeys(t.c[i])

\* C7, amended: for every automaton and every valid JSON input, a finished run
\* reports the same set of offsets as the engine built without tail-skip and
\* unique-labels, provided that, when unique-labels is on, no object of the input
\* repeats a key.
C7_FeaturesKeepReportsUniqueKeys ==
    (Done /\ ValidJson /\ (features.unique_labels => UniqueKeys(tree)))
        => SetOf(result) = SetOf(run(NoFeatures).result)

\* a run with unique-labels on has skipped the rest of an object after a match
\* (the classifier is past a member it never saw) and has finished with the
\* reports of the engine without the optimizations
C7_Witness ==
    /\ Done
    /\ features.unique_labels
    /\ ValidJson
    /\ UniqueKeys(tree)
    /\ result # <<>>
    /\ result = run(NoFeatures).result
    /\ \E m \in members : m.colon > result[Len(result)] /\ m.path = <<>>
    /\ is_unitary(automaton, initial_state(automaton))

\* Nesting read off the bytes alone: the brackets outside strings, and for an
\* opening bracket the number of containers open before it.
RefQuotes == {j \in 0..(Len(bytes) - 1) : RefUnescapedQuote(j)}
RefBrackets(kinds) ==
    LET quotes == RefQuotes
    IN {i \in 0..(Len(bytes) - 1) :
            At(i) \in kinds /\ Cardinality({q \in quotes : q < i}) % 2 = 0}
RefOpenings == RefBrackets({"{", "["})
RefClosings == RefBrackets({"}", "]"})
RefDepthBefore(i) ==
    Cardinality({o \in RefOpenings : o < i}) - Cardinality({c \in RefClosings : c < i})
\* the opening brackets that would take the nesting depth above the limit
TooDeep ==
    LET opens == RefOpenings
        closes == RefClosings
    IN {i \in opens : Cardinality({o \in opens : o < i})
                          - Cardinality({c \in closes : c < i}) >= DepthLimit}
Least(S) == CHOOSE x \in S : \A y \in S : x <= y

\* C8 as stated: an input nested at most 255 deep never ends in DepthAboveLimit,
\* and every run over an input nested deeper ends in DepthAboveLimit carrying the
\* offset of the first opening bracket that would take the depth above 255.
C8_DepthLimitAlwaysRaised ==
    Done => LET deep == TooDeep
            IN IF deep = {} THEN outcome.kind # "DepthAboveLimit"
               ELSE outcome = DepthAboveLimit(Least(deep))

\* C8, amended: an input nested at most 255 deep never ends in DepthAboveLimit;
\* DepthAboveLimit always carries the offset of an opening bracket that would
\* take the depth above 255; and over a valid JSON document nested deeper, or a
\* prefix of one, a run of a non-empty query without tail-skip ends in
\* DepthAboveLimit at the first such bracket.
C8_DepthLimitRaisedWhenCounted ==
    Done => LET deep == TooDeep
            IN /\ deep = {} => outcome.kind # "DepthAboveLimit"
               /\ outcome.kind = "DepthAboveLimit" => outcome.idx \in deep
               /\ (deep # {} /\ ~is_empty_query(automaton) /\ ~features.tail_skip)
                      => outcome = DepthAboveLimit(Least(deep))

\* a run has failed at the 256th opening bracket, the 255 before it counted
C8_Witness ==
    /\ outcome.kind = "DepthAboveLimit"
    /\ depth = DepthLimit
    /\ RefDepthBefore(outcome.idx) = DepthLimit
    /\ outcome.idx = Least(TooDeep)

\* the input ends with a container still open: no closing bracket is unmatched
\* and more brackets open than close
StillOpen ==
    /\ \A i \in RefClosings : RefDepthBefore(i) > 0
    /\ RefDepthBefore(Len(bytes)) > 0
RootContainer == tree.t \in {"object", "array", "nested"}

\* C9: a run of the executor (a query other than $) over an input that ends with
\* a container still open returns MissingClosingCharacter, and a run over a
\* document whose root container closes returns Ok.
C9_TruncatedInputIsReported ==
    (Done /\ ~is_empty_query(automaton))
        => /\ StillOpen => outcome = MissingClosingCharacter
           /\ RootContainer => outcome = Ok

\* the closing brackets outside strings met while no container is open
Unmatched == {i \in RefClosings : RefDepthBefore(i) = 0}

\* C10 as stated: when the input holds a closing bracket with no open container
\* to close, the run fails with DepthBelowZero carrying the offset of that bracket.
C10_UnmatchedClosingFails ==
    (Done /\ Unmatched # {}) => outcome = DepthBelowZero(Least(Unmatched))

\* C10, amended: a run of a query other than $ fails with DepthBelowZero exactly
\* when the first bracket outside strings is a closing bracket, and the error
\* carries that bracket's offset; a closing bracket after the root container has
\* closed is never read.
C10_LeadingClosingFails ==
    (Done /\ ~is_empty_query(automaton))
        => LET brackets == RefOpenings \cup RefClosings
               leading == brackets # {} /\ Least(brackets) \in RefClosings
           IN IF leading THEN outcome = DepthBelowZero(Least(brackets))
              ELSE outcome.kind # "DepthBelowZero"

\* a run over a closing bracket followed by a document has failed with
\* DepthBelowZero at offset 0
C10_Witness ==
    /\ ~is_empty_query(automaton)
    /\ At(0) \in {"}", "]"}
    /\ Len(bytes) > 1
    /\ outcome = DepthBelowZero(0)

NoQuoteBefore(idx) == \A i \in 0..(idx - 1) : At(i) # QUOTE

\* C11: matching a label at a colon offset idx fails with MalformedLabelQuotes
\* exactly when no quote byte lies at an offset in 0..idx-1, and otherwise gives
\* a boolean (is_match reads the buffer only: it is evaluated for every offset
\* and label when the run starts); a run that ends in MalformedLabelQuotes(idx)
\* has no quote before idx.
C11_MalformedIffNoQuoteBefore ==
    /\ pos = 0 =>
           \A idx \in 1..Len(bytes) : \A l \in {La, Lb} :
               LET m == is_match(idx, l)
               IN IF NoQuoteBefore(idx) THEN m = "malformed"
                  ELSE m \in {"match", "nomatch"}
    /\ outcome.kind = "MalformedLabelQuotes"
           => /\ outcome.idx \in 1..Len(bytes)
              /\ At(outcome.idx) = ":"
              /\ NoQuoteBefore(outcome.idx)
C11_Witness ==
    /\ outcome.kind = "MalformedLabelQuotes"
    /\ NoQuoteBefore(outcome.idx)

Errors == {"DepthAboveLimit", "DepthBelowZero", "MalformedLabelQuotes", "MissingClosingCharacter"}
IsPrefix(s, t) == Len(s) <= Len(t) /\ SubSeq(t, 1, Len(s)) = s

\* C12: once a run has returned (with a structural error in particular) nothing
\* changes any more: no event is processed and no report is made; and no step,
\* the failing one included, removes or alters an offset already reported.
C12_ErrorHaltsAndKeepsReports ==
    [][/\ IsPrefix(result, result')
       /\ outcome.kind \in Errors => UNCHANGED vars]_vars
C12_Witness ==
    /\ outcome.kind = "DepthAboveLimit"
    /\ Len(result) > 0

\* C13: on any buffer, JSON or not, no step of the run panics: the backward
\* scans of is_match and find_preceding_colon never step below offset 0, and the
\* classifier position and every event offset stay within the buffer.
C13_NeverPanics ==
    /\ outcome.kind # "Panic"
    /\ pos \in 0..Len(bytes)
    /\ next_event.idx \in 0..Len(bytes)
    /\ \A i \in 1..Len(result) : result[i] \in 0..Len(bytes)
\* the scan of is_match started at offset 0 and ended there
C13_Witness ==
    /\ outcome = MalformedLabelQuotes(1)
    /\ depth > 0
    /\ At(0) \in {"{", "["}

Lookahead == IF next_event.kind = "None" THEN 0 ELSE 1
\* an iteration of the loop consumes input: the classifier moves on, or the
\* lookahead is used up, or a closing (a synthesized one included) lowers the depth
Consumes ==
    \/ pos' > pos
    \/ pos' = pos /\ Lookahead' < Lookahead
    \/ pos' = pos /\ Lookahead' = Lookahead /\ depth' < depth

\* C14: every run returns; each iteration of the event loop either ends the run
\* or consumes a classifier event or a pending lookahead, and a Closing
\* synthesized by a unique-labels skip lowers the depth, so a chain of them ends.
C14_EveryRunTerminates ==
    /\ <>Done
    /\ [][outcome'.kind # "Running" \/ Consumes]_vars
    /\ [][(next_event.kind = "Closing" /\ next_event'.kind = "Closing")
              => depth' = depth - 1]_vars
\* $.a.b on an input that ends inside the inner object and holds no closing
\* bracket at all: the member b was reported in the inner object, a synthesized
\* Closing has taken the run back to the initial state, and the next is pending
C14_Witness ==
    /\ features.unique_labels
    /\ automaton = AutChildChild(La, Lb)
    /\ RefClosings = {}
    /\ Len(result) > 0
    /\ state = initial_state(automaton)
    /\ depth = 1
    /\ next_event = Closing("Curly", Len(bytes))

-----------------------------------------------------------------------------
(* The events of the structural classifier *)

\* the event a structural byte stands for
RefEventAt(i) ==
    CASE At(i) = "{" -> [kind |-> "Opening", bracket |-> "Curly", idx |-> i]
      [] At(i) = "[" -> [kind |-> "Opening", bracket |-> "Square", idx |-> i]
      [] At(i) = "}" -> [kind |-> "Closing", bracket |-> "Curly", idx |-> i]
      [] At(i) = "]" -> [kind |-> "Closing", bracket |-> "Square", idx |-> i]
      [] At(i) = ":" -> [kind |-> "Colon", bracket |-> "None", idx |-> i]
      [] At(i) = "," -> [kind |-> "Comma", bracket |-> "None", idx |-> i]
\* the bytes of the given kinds outside strings, at offset p or after
RefStructural(p, kinds) == {i \in RefBrackets(kinds) : i >= p}
RefKinds(colons, commas) ==
    {k \in StructuralBytes : (k = ":" => colons) /\ (k = "," => commas)}
RefNextEvent(p, colons, commas) ==
    LET rest == RefStructural(p, RefKinds(colons, commas))
    IN IF rest = {} THEN NoEvent ELSE RefEventAt(Least(rest))

\* C17: on valid JSON every event the structural classifier yields is the next
\* byte among { } [ ] : , outside strings whose kind is enabled, with that
\* byte's offset and kind: with colons and commas enabled the events are all of
\* these bytes, and with colons or commas disabled they are the same events less
\* the ones of the disabled kind. The classifier the runs follow by pos yields
\* the same event.
C17_StructuralEventTotality ==
    [][(ValidJson /\ StructuralNext)
           => /\ next_event' = RefNextEvent(pos, colons_on, commas_on)
              /\ next_event' = ClassifierNext(pos, colons_on, commas_on).ev]_vars
\* a comma has been yielded with both kinds enabled in the second block, after
\* a string that holds structural bytes
C17_Witness ==
    /\ ValidJson
    /\ colons_on /\ commas_on
    /\ next_event.kind = "Comma" /\ pos = next_event.idx + 1
    /\ next_event.idx >= BlockSize
    /\ \E i \in 0..(next_event.idx - 1) : At(i) \in StructuralBytes /\ RefInString(i)

\* C18: the structural classifier yields its events in strictly increasing
\* offset order over the whole input: every event lies at or after the position
\* the classifier stands at, which is after every event yielded before, and the
\* position never moves back, within a block or from one block to the next,
\* when the masks change and when the classifier is stopped for a skip and
\* resumed.
C18_EventsInIncreasingOrder ==
    /\ [](next_event.kind # "None" => next_event.idx < pos)
    /\ [][(StructuralNext /\ next_event'.kind # "None") => next_event'.idx >= pos]_vars
    /\ [][pos' >= pos]_vars
\* the classifier has been resumed in the second block after a skip begun in
\* the first, with commas turned on and events of that block still to yield
C18_Witness ==
    /\ commas_on
    /\ next_event.kind = "Opening" /\ next_event.idx < BlockSize
    /\ pos > BlockSize /\ pos > next_event.idx + 1
    /\ At(pos - 1) \in {"}", "]"}
    /\ structural_mask # {}

\* the colons or commas outside strings in the block the classifier is in, at
\* offset p or after
RefLeftInBlock(kind, p) ==
    {i \in RefStructural(p, {kind}) : i < get_offset(quote_classifier)}

\* C19: a kind that has been turned on at offset idx is yielded from idx + 1 on:
\* right after turn_colons_on(idx) (turn_commas_on(idx)) the bits still to be
\* yielded hold every colon (comma) outside strings of the current block after
\* idx and none at or before idx, and while the kind is on no next() passes over
\* a colon (comma) outside strings. Once a kind has been turned off, the block
\* holds no bit of it and no next() yields it.
C19_MaskChangesTakeEffectAfterIdx ==
    /\ [][TurnColonsOn =>
              {current_base(structural_classifier) + j
                   : j \in structural_bits(structural_classifier, {":"})
                            \cap structural_mask'}
                  = RefLeftInBlock(":", pos)]_vars
    /\ [][TurnCommasOn =>
              {current_base(structural_classifier) + j
                   : j \in structural_bits(structural_classifier, {","})
                            \cap structural_mask'}
                  = RefLeftInBlock(",", pos)]_vars
    /\ [][StructuralNext =>
              LET upto == IF next_event'.kind = "None" THEN Len(bytes)
                          ELSE next_event'.idx
                  passed(kind) == {i \in RefStructural(pos, {kind}) : i < upto}
              IN /\ colons_on => passed(":") = {}
                 /\ commas_on => passed(",") = {}
                 /\ ~colons_on => next_event'.kind # "Colon"
                 /\ ~commas_on => next_event'.kind # "Comma"]_vars
\* colons have been turned on after an opening brace near the end of a block
\* that holds a colon outside strings after the brace, and that colon has been
\* yielded
C19_Witness ==
    /\ colons_on /\ ~commas_on
    /\ next_event.kind = "Colon"
    /\ pos = next_event.idx + 1
    /\ next_event.idx < BlockSize
    /\ \E o \in (BlockSize - 6)..(next_event.idx - 1) :
           /\ At(o) = "{"
           /\ \A i \in (o + 1)..(next_event.idx - 1) : At(i) \notin StructuralBytes \/ RefInString(i)

-----------------------------------------------------------------------------
(* Skipping to the close of a container *)

\* The closes of kind `opening` outside strings at offset p or after, before
\* which as many brackets of that kind have been opened as closed since p: at
\* the least of them the depth, 1 at p, is 0 for the first time.
RefBalancedCloses(p, opening) ==
    LET opens == RefStructural(p, {opening})
        closes == RefStructural(p, {closing_of(opening)})
    IN {i \in closes : Cardinality({o \in opens : o < i})
                           = Cardinality({c \in closes : c < i})}
RECURSIVE classify_through(_, _)
\* the classifier after next() has been called until it yields offset idx
classify_through(c, idx) ==
    LET r == structural_next(c)
    IN IF r.ev.kind = "None" \/ r.ev.idx >= idx THEN r.c ELSE classify_through(r.c, idx)

\* C20: skip(opening) called where a close of that bracket kind is pending
\* returns the offset where the depth of that kind, brackets inside strings not
\* counted, comes to one below the depth at entry; inside a container of a valid
\* document, opened by that kind of bracket, that is the close of the container.
\* The classifier then stands at the byte after the close, with the quote
\* classifier and the pending bits it would have had after yielding every event
\* up to that close. In the example of the depth module the skip from offset 0
\* ends 15 bytes before the end of the input.
C20_SkipRoundTrip ==
    [][(pos' # pos /\ next_event' = next_event) =>
           \A opening \in {"{", "["} :
               SkipContainer(opening) =>
                   LET closes == RefBalancedCloses(pos, opening)
                       opened == RefOpenings
                       closed == RefClosings
                       depth_before(i) == Cardinality({o \in opened : o < i})
                                              - Cardinality({c \in closed : c < i})
                       entry == depth_before(pos)
                       \* the brackets that open the containers open at pos
                       around == {o \in opened : o < pos /\ depth_before(o) < entry
                                      /\ \A c \in closed :
                                             (o < c /\ c < pos) => depth_before(c + 1) > depth_before(o)}
                       innermost == CHOOSE o \in around : \A x \in around : x <= o
                       its_close == Least({c \in closed : c >= pos
                                                            /\ depth_before(c + 1) = entry - 1})
                   IN /\ closes # {} =>
                             /\ pos' = Least(closes) + 1
                             /\ structural_classifier'
                                    = classify_through(structural_classifier, Least(closes))
                      /\ (ValidJson /\ around # {} /\ At(innermost) = opening)
                             => pos' = its_close + 1
                      /\ (bytes = DepthExample /\ pos = 0 /\ opening = "{")
                             => pos' = Len(bytes) - 15]_vars
\* a container opened in the first block has been skipped to its close in the
\* second, over a string that holds a closing bracket of its kind
C20_Witness ==
    /\ ValidJson
    /\ next_event.kind = "Opening" /\ next_event.idx < BlockSize
    /\ pos > BlockSize
    /\ At(pos - 1) = closing_of(At(next_event.idx))
    /\ RefDepthBefore(pos) = RefDepthBefore(next_event.idx)
    /\ \E i \in (next_event.idx + 1)..(pos - 2) : At(i) = At(pos - 1) /\ RefInString(i)

-----------------------------------------------------------------------------
(* The depth blocks *)

\* the brackets of kind `opening` outside strings opened less those closed
\* over the bytes before offset end
RefNet(opening, end) ==
    Cardinality({i \in RefBrackets({opening}) : i < end})
        - Cardinality({i \in RefBrackets({closing_of(opening)}) : i < end})
\* a depth block decorates the current block of the quote classifier
HasDepthBlock == depth_classifier # no_depth_block /\ Len(quote_classifier.masks) > 0
depth_block_base == BlockSize * (Len(quote_classifier.masks) - 1)

\* C21: for every block of the depth classifier, wherever its cursor stands,
\* depth_at_end with the depth carried from the earlier blocks added is the
\* number of opening brackets of the kind counted less the number of closing
\* ones, outside strings, over all bytes from the start of the input to the end
\* of the block.
C21_DepthAtEndIsNetOpenings ==
    HasDepthBlock =>
        depth_at_end(quote_classifier, depth_classifier)
            = RefNet(depth_classifier.opening, get_offset(quote_classifier))
\* the cursor is inside the second block, which was entered at a depth above 0,
\* brackets of the kind are left after it, and a string of the input holds a
\* bracket of the kind
C21_Witness ==
    /\ HasDepthBlock
    /\ Len(quote_classifier.masks) = 2
    /\ depth_classifier.idx \in 1..(BlockSize - 1)
    /\ depth_at_end(quote_classifier, depth_classifier) # get_depth(depth_classifier)
    /\ RefNet(depth_classifier.opening, depth_block_base) > 0
    /\ \E i \in 0..(Len(bytes) - 1) :
           At(i) \in {depth_classifier.opening, closing_of(depth_classifier.opening)}
               /\ RefInString(i)

\* C22: at every cursor position of a depth block the estimate of the lowest
\* possible depth is at most the depth at that position and at most the depth
\* at every position the cursor can come to later in the block: after each
\* close of the kind that is left, and at the end of the block.
C22_EstimateIsLowerBound ==
    HasDepthBlock =>
        LET estimate == estimate_lowest_possible_depth(quote_classifier, depth_classifier)
            opening == depth_classifier.opening
            cursor == depth_block_base + depth_classifier.idx
            closes == {i \in RefBrackets({closing_of(opening)}) :
                           cursor <= i /\ i < get_offset(quote_classifier)}
        IN /\ estimate <= get_depth(depth_classifier)
           /\ \A i \in closes : estimate <= RefNet(opening, i + 1)
           /\ estimate <= RefNet(opening, get_offset(quote_classifier))
\* closes are left after the cursor and a bracket is opened after the first
\* of them, so that the depth at the end of the block is no lower bound
C22_Witness ==
    /\ HasDepthBlock
    /\ depth_classifier.advanced
    /\ LET closes == bits_left(quote_classifier, depth_classifier,
                                closing_of(depth_classifier.opening))
           opens == bits_left(quote_classifier, depth_classifier, depth_classifier.opening)
       IN /\ closes # {}
          /\ \E o \in opens : o > lowest(closes)
          /\ depth_at_end(quote_classifier, depth_classifier)
                 > get_depth(depth_classifier) - 1

\* C23: a depth block for opening byte b shows the depth carried into it before
\* any advance. advance_to_next_depth_decrease returns true iff a close of b's
\* kind outside strings is left at or after the cursor; the cursor then stands
\* right after the first such close and get_depth is the brackets of b's kind
\* opened less those closed from the start of the input up to and including
\* that close, so that brackets of the other kind never change the depth. In
\* the example of the depth module the depths after the three advances are
\* 2, 1 and 0.
C23_AdvanceStopsAtCloses ==
    /\ [][DepthNext =>
              /\ depth_classifier'.idx = 0
              /\ get_depth(depth_classifier')
                     = RefNet(depth_classifier.opening, get_offset(quote_classifier))]_vars
    /\ [][DepthAdvance =>
              LET opening == depth_classifier.opening
                  cursor == depth_block_base + depth_classifier.idx
                  closes == {i \in RefBrackets({closing_of(opening)}) :
                                 cursor <= i /\ i < get_offset(quote_classifier)}
                  reached == depth_block_base + depth_classifier'.idx - 1
              IN /\ depth_classifier'.advanced <=> closes # {}
                 /\ depth_classifier'.advanced =>
                        /\ reached = Least(closes)
                        /\ get_depth(depth_classifier') = RefNet(opening, reached + 1)
                 /\ (bytes = DepthListExample /\ opening = "[" /\ depth_classifier'.advanced)
                        => <<reached, get_depth(depth_classifier')>>
                               \in {<<12, 2>>, <<13, 1>>, <<26, 0>>}]_vars
\* an advance has passed brackets of the other kind and stopped at a close of
\* the kind counted, at a depth other than the one carried into the block
C23_Witness ==
    /\ HasDepthBlock
    /\ depth_classifier.advanced
    /\ \E i \in depth_block_base..(depth_block_base + depth_classifier.idx - 2) :
           At(i) \in Brackets \ {depth_classifier.opening, closing_of(depth_classifier.opening)}
               /\ ~RefInString(i)
    /\ get_depth(depth_classifier) # RefNet(depth_classifier.opening, depth_block_base)
    /\ get_depth(depth_classifier) > 0

-----------------------------------------------------------------------------
(* The depth blocks of the benchmark crate *)

-----------------------------------------------------------------------------
(* The padded input *)

\* C25: with the simd feature Input::new appends exactly
\* ((B - len mod B) mod B) + B zero bytes to the source, B the size of two
\* SIMD blocks: the result begins with the source, its length is a multiple
\* of B and at least the length of the source plus B.
C25_InputIsPaddedToTwoSimdBlocks ==
    (input.built /\ input.simd) =>
        LET len == Len(bytes)
            appended == Len(input.bytes) - len
        IN /\ appended = ((TwoSimdBlocksSize - (len % TwoSimdBlocksSize))
                              % TwoSimdBlocksSize) + TwoSimdBlocksSize
           /\ Len(input.bytes) % TwoSimdBlocksSize = 0
           /\ Len(input.bytes) >= len + TwoSimdBlocksSize
           /\ SubSeq(input.bytes, 1, len) = bytes
           /\ \A i \in (len + 1)..Len(input.bytes) : input.bytes[i] = NUL
           /\ input.aligned
C25_Witness ==
    /\ input.built /\ input.simd
    /\ Len(bytes) = 2 * TwoSimdBlocksSize
    /\ Len(input.bytes) = 3 * TwoSimdBlocksSize

-----------------------------------------------------------------------------
(* The executor's stack *)

\* the frame depths of stack s are strictly increasing from bottom to top and
\* below depth d
FramesBelow(s, d) ==
    /\ \A i \in 1..(Len(s) - 1) : s[i].depth < s[i + 1].depth
    /\ \A i \in 1..Len(s) : s[i].depth < d

\* C26: between any two events of a walk, whatever events were handled before
\* and whatever was skipped, the frame depths on the executor's stack are
\* strictly increasing from bottom to top and every frame's depth is strictly
\* less than the current depth.
C26_StackDepthsIncreaseBelowDepth ==
    outcome.kind = "Running" => FramesBelow(stack, depth)
\* a frame is on the stack after a skip: the query is $.a, tail-skip is on,
\* the container under the first key, b, was skipped and the container under
\* a later key was opened
C26_Witness ==
    /\ outcome.kind = "Running"
    /\ automaton = AutChild(La)
    /\ features.tail_skip
    /\ <<At(0), At(1), At(2), At(3), At(4)>> = <<"{">> \o Q(Lb) \o <<":">>
    /\ At(5) \in {"{", "["}
    /\ Len(stack) >= 1
    /\ depth = 2
    /\ FramesBelow(stack, depth)

-----------------------------------------------------------------------------
(* An opening and its closing *)

\* the opening bracket the closing bracket at offset c closes
RefOpeningOf(c) ==
    LET opens == RefOpenings
        closes == RefClosings
        before(j) == Cardinality({o \in opens : o < j})
                         - Cardinality({k \in closes : k < j})
        level == before(c)
        S == {o \in opens : o < c /\ before(o) = level - 1}
    IN IF S = {} THEN -1 ELSE CHOOSE o \in S : \A y \in S : y <= o

RECURSIVE before_opening(_, _, _)
\* The walk from executor e up to the iteration that takes the Opening at offset
\* i: [handled |-> whether the walk takes that event, e |-> the executor then]
before_opening(e, i, F) ==
    LET t == take_event(e)
    IN IF e.outcome.kind # "Running" \/ t.ev.kind = "None" \/ t.ev.idx > i
       THEN [handled |-> FALSE, e |-> e]
       ELSE IF t.ev.idx = i
       THEN [handled |-> t.ev.kind = "Opening", e |-> e]
       ELSE before_opening(step(e, F), i, F)

\* the Opening at offset i, taken from executor e, is handled without a skip
\* and without an error
opened(e, i, F) ==
    LET e1 == handle_opening(take_event(e).e, i, F)
    IN e1.outcome.kind = "Running" /\ e1.depth = e.depth + 1

\* C27: for every Opening handled at depth >= 1 that is not skipped, right
\* after its matching Closing has been handled the executor's depth, state,
\* is_list and stack are what they were right before that Opening was handled.
C27_OpenCloseRoundTrip ==
    [][(depth' = depth - 1 /\ ValidJson /\ InLoop
            /\ take_event(Exec).ev.kind = "Closing") =>
          LET c == take_event(Exec).ev.idx
              i == RefOpeningOf(c)
              b == before_opening(query_executor, i, features)
          IN (i # -1 /\ b.handled /\ b.e.depth >= 1 /\ opened(b.e, i, features)) =>
                 /\ depth' = b.e.depth
                 /\ state' = b.e.state
                 /\ is_list' = b.e.is_list
                 /\ stack' = b.e.stack]_vars
\* the closing bracket before the classifier's position has just been handled;
\* its opening was handled at depth >= 1, pushed a frame and changed is_list,
\* and all four are back to what they were
C27_Witness ==
    /\ outcome.kind = "Running" /\ ValidJson /\ ~is_empty_query(automaton)
    /\ next_event.kind = "None"
    /\ pos >= 1 /\ (pos - 1) \in RefClosings
    /\ LET i == RefOpeningOf(pos - 1)
           b == before_opening(query_executor, i, features)
       IN /\ i # -1 /\ b.handled /\ b.e.depth >= 1 /\ opened(b.e, i, features)
          /\ Len(handle_opening(take_event(b.e).e, i, features).stack) > Len(b.e.stack)
          /\ handle_opening(take_event(b.e).e, i, features).is_list # b.e.is_list
          /\ depth = b.e.depth /\ state = b.e.state
          /\ is_list = b.e.is_list /\ stack = b.e.stack

-----------------------------------------------------------------------------
(* What an Opening pushes *)

\* The target handle_opening chooses for the Opening at offset idx taken from
\* executor e: the target of the first matching transition, else, below the
\* root, the fallback state; chosen is false when neither is looked for (depth
\* 0) and when the label fails to be read. skipped: the tail-skip is taken.
opening_target(e, idx, F) ==
    LET colon_idx == find_preceding_colon(e.depth, idx)
        fm == IF colon_idx >= 0
              THEN FirstMatch(transitions(automaton, e.state), 1, colon_idx, FALSE)
              ELSE [r |-> "nomatch", target |-> 0]
        fb == fallback_state(automaton, e.state)
        read == colon_idx # -2 /\ fm.r \in {"match", "nomatch"}
    IN [read |-> read,
        matched |-> fm.r = "match",
        chosen |-> read /\ (fm.r = "match" \/ e.depth # 0),
        target |-> IF fm.r = "match" THEN fm.target ELSE fb,
        skipped |-> read /\ fm.r = "nomatch" /\ e.depth # 0
                         /\ F.tail_skip /\ is_rejecting(automaton, fb)]

\* C28 as stated: handling an Opening pushes the frame (depth, state, is_list)
\* iff the chosen target differs from the current state or the opened
\* container's list-ness differs from is_list; when neither differs nothing is
\* pushed and the state is unchanged; at most one frame is pushed.
C28_PushIffTargetOrListDiffers ==
    [][(InLoop /\ take_event(Exec).ev.kind = "Opening") =>
          LET idx == take_event(Exec).ev.idx
              t == opening_target(Exec, idx, features)
              differs == \/ t.chosen /\ t.target # state
                         \/ (At(idx) = "[") # is_list
          IN t.read =>
                 /\ (stack' = Append(stack, StackFrame(depth, state, is_list))) <=> differs
                 /\ ~differs => (stack' = stack /\ state' = state)
                 /\ Len(stack') <= Len(stack) + 1]_vars

\* C28, amended: when handle_opening calls transition_to (a transition matched
\* the label, or the opening is below the root and is not tail-skipped), the
\* frame (depth, state, is_list) is pushed and the state becomes the target
\* iff the target differs from the state or the list-ness differs from
\* is_list, and otherwise nothing is pushed and the state is unchanged; the
\* Opening at depth 0 and a tail-skipped Opening push nothing and leave the
\* state unchanged whatever their list-ness.
C28_PushIffTransitionDiffers ==
    [][(InLoop /\ take_event(Exec).ev.kind = "Opening") =>
          LET idx == take_event(Exec).ev.idx
              t == opening_target(Exec, idx, features)
              differs == t.target # state \/ (At(idx) = "[") # is_list
          IN t.read =>
                 IF t.chosen /\ ~t.skipped /\ differs
                 THEN /\ stack' = Append(stack, StackFrame(depth, state, is_list))
                      /\ state' = t.target
                 ELSE stack' = stack /\ state' = state]_vars
\* an Opening has pushed a frame for its list-ness alone: the frame on top was
\* pushed by the Opening that led to the current depth, it holds the current
\* state and the other list-ness
C28_Witness ==
    /\ outcome.kind = "Running"
    /\ Len(stack) >= 1
    /\ stack[Len(stack)].depth = depth - 1
    /\ stack[Len(stack)].state = state
    /\ stack[Len(stack)].is_list # is_list

-----------------------------------------------------------------------------
(* The tail-skip of an Opening *)

\* the closing bracket that closes the opening bracket at offset i, -1 when
\* there is none
RefClosingOf(i) ==
    LET opens == RefOpenings
        closes == RefClosings
        before(j) == Cardinality({o \in opens : o < j})
                         - Cardinality({k \in closes : k < j})
        level == before(i)
        S == {c \in closes : c > i /\ before(c) = level + 1}
    IN IF S = {} THEN -1 ELSE Least(S)

\* C29: with tail-skip, an Opening at depth >= 1 whose label matches no
\* transition and whose fallback state is rejecting skips the whole subtree:
\* depth, state, is_list, stack and the colon and comma masks are left as they
\* were, no offset from the opening to its matching close is reported, by this
\* handler or later, and the next event processed lies after that close.
C29_TailSkipLeavesExecutorUnchanged ==
    [][(InLoop /\ features.tail_skip /\ depth >= 1
            /\ take_event(Exec).ev.kind = "Opening") =>
          LET idx == take_event(Exec).ev.idx
              t == opening_target(Exec, idx, features)
              close == RefClosingOf(idx)
              rest == run_and_exit(Exec', features).result
          IN (t.read /\ ~t.matched
                  /\ is_rejecting(automaton, fallback_state(automaton, state))) =>
                 /\ depth' = depth /\ state' = state
                 /\ is_list' = is_list /\ stack' = stack
                 /\ colons_on' = colons_on /\ commas_on' = commas_on
                 /\ result' = result /\ outcome' = outcome
                 /\ ValidJson =>
                        /\ close # -1
                        /\ \A k \in 1..Len(rest) : rest[k] < idx \/ rest[k] > close
                        /\ take_event(Exec').ev.kind # "None"
                               => take_event(Exec').ev.idx > close]_vars
\* a subtree holding another container has just been tail-skipped below the
\* root of a valid document: the closing bracket before the classifier's
\* position closes an opening the walk took at depth >= 1 and skipped, and the
\* executor is as it was at that opening
C29_Witness ==
    /\ outcome.kind = "Running" /\ ValidJson /\ features.tail_skip
    /\ ~is_empty_query(automaton)
    /\ next_event.kind = "None"
    /\ pos >= 1 /\ (pos - 1) \in RefClosings
    /\ LET i == RefOpeningOf(pos - 1)
           b == before_opening(query_executor, i, features)
       IN /\ i # -1 /\ b.handled /\ b.e.depth >= 1
          /\ opening_target(b.e, i, features).skipped
          /\ \E o \in RefOpenings : i < o /\ o < pos - 1
          /\ depth = b.e.depth /\ state = b.e.state /\ stack = b.e.stack
          /\ is_list = b.e.is_list /\ result = b.e.result
          /\ colons_on = b.e.colons_on /\ commas_on = b.e.commas_on

-----------------------------------------------------------------------------
(* What a Colon reports *)

\* C30: a Colon event at idx yields at most one report, and only of idx: when
\* the lookahead is an Opening the Colon handler reports nothing; otherwise idx
\* is reported exactly once iff some transition of the current state with an
\* accepting target matches the label before the colon or the fallback state
\* is accepting.
C30_ColonReportsAtMostOnce ==
    [][(InLoop /\ take_event(Exec).ev.kind = "Colon") =>
          LET idx == take_event(Exec).ev.idx
              trs == transitions(automaton, state)
              accepting_match ==
                  \E k \in 1..Len(trs) :
                      /\ is_accepting(automaton, trs[k].target)
                      /\ is_match(idx, trs[k].label) = "match"
              accepting_fallback ==
                  is_accepting(automaton, fallback_state(automaton, state))
          IN /\ result' \in {result, Append(result, idx)}
             /\ is_opening(next_event') => result' = result
             /\ ~is_opening(next_event') =>
                    (result' = Append(result, idx)
                         <=> (accepting_match \/ accepting_fallback))]_vars
\* the Colon handler has reported the colon of a member whose value is not a
\* container, in a state whose fallback state is accepting as well as the
\* target of the matching transition
C30_Witness ==
    /\ outcome.kind = "Running"
    /\ Len(result) >= 1
    /\ At(result[Len(result)]) = ":"
    /\ next_event.kind \in {"Closing", "Comma", "Colon"}
    /\ result[Len(result)] < next_event.idx
    /\ \A j \in (result[Len(result)] + 1)..(next_event.idx - 1) : At(j) \notin {"{", "["}
    /\ is_accepting(automaton, fallback_state(automaton, state))
    /\ \E k \in 1..Len(transitions(automaton, state)) :
           /\ is_accepting(automaton, transitions(automaton, state)[k].target)
           /\ is_match(result[Len(result)], transitions(automaton, state)[k].label) = "match"

-----------------------------------------------------------------------------
(* The first element of a list *)

\* what lines 283-320 of handle_opening report for the Opening at offset idx
\* taken from executor e: the colon of a label matched towards an accepting
\* state, or the opening itself when it falls back to an accepting state
transition_reports(e, idx, F) ==
    LET t == opening_target(e, idx, F)
    IN IF t.matched
       THEN (IF is_accepting(automaton, t.target)
             THEN <<find_preceding_colon(e.depth, idx)>> ELSE <<>>)
       ELSE IF t.chosen /\ ~t.skipped /\ is_accepting(automaton, t.target)
       THEN <<idx>>
       ELSE <<>>

\* C31: when a [ is opened in a state whose fallback state is accepting, commas
\* are enabled and the first element is reported from the lookahead: before a
\* Closing at close_idx the first non-whitespace offset in (idx, close_idx),
\* nothing when there is none; before a Comma idx + 1; before an Opening or at
\* the end of the events nothing. When the fallback state is not accepting
\* commas are disabled and no lookahead is read.
C31_FirstElementFromLookahead ==
    [][(InLoop /\ take_event(Exec).ev.kind = "Opening"
            /\ At(take_event(Exec).ev.idx) = "[") =>
          LET taken == take_event(Exec)
              idx == taken.ev.idx
              t == opening_target(Exec, idx, features)
              base == result \o transition_reports(Exec, idx, features)
              lookahead == RefNextEvent(taken.e.pos, colons_on, TRUE)
              inside == {j \in (idx + 1)..(next_event'.idx - 1) : ~IsWhitespace(At(j))}
          IN (t.read /\ ~t.skipped) =>
                 IF is_accepting(automaton, fallback_state(automaton, state'))
                 THEN /\ commas_on'
                      /\ ValidJson => next_event' = lookahead
                      /\ result' =
                             CASE next_event'.kind = "Closing" ->
                                      IF inside = {} THEN base
                                      ELSE Append(base, Least(inside))
                               [] next_event'.kind = "Comma" -> Append(base, idx + 1)
                               [] OTHER -> base
                 ELSE /\ ~commas_on'
                      /\ next_event'.kind = "None"
                      /\ pos' = taken.e.pos
                      /\ result' = base]_vars
\* a list of one element with whitespace around it has been opened in a state
\* whose fallback state is accepting: the lookahead is its Closing and the
\* offset of the element, two or more past the bracket, is the last report
C31_Witness ==
    /\ outcome.kind = "Running"
    /\ next_event.kind = "Closing"
    /\ commas_on /\ is_list
    /\ is_accepting(automaton, fallback_state(automaton, state))
    /\ Len(result) >= 1
    /\ \E idx \in 0..(next_event.idx - 1) :
           /\ At(idx) = "["
           /\ result[Len(result)] > idx + 1
           /\ result[Len(result)] < next_event.idx
           /\ \A j \in (idx + 1)..(result[Len(result)] - 1) : IsWhitespace(At(j))

-----------------------------------------------------------------------------
(* The elements of a list *)

\* The list opened by the bracket at offset i, read off the bytes: the offsets
\* directly inside it (the bytes of nested containers left out, their opening
\* brackets kept) and the number of its elements.
RefList(i) ==
    LET opens == RefOpenings
        closes == RefClosings
        quotes == RefQuotes
        before(j) == Cardinality({o \in opens : o < j})
                         - Cardinality({k \in closes : k < j})
        level == before(i)
        ends == {c \in closes : c > i /\ before(c) = level + 1}
        close == IF ends = {} THEN Len(bytes) ELSE Least(ends)
        direct == {j \in (i + 1)..(close - 1) : before(j) = level + 1}
        commas == {j \in direct : At(j) = ","
                                      /\ Cardinality({q \in quotes : q < j}) % 2 = 0}
    IN [direct |-> direct,
        elements |-> IF \A j \in direct : IsWhitespace(At(j)) THEN 0
                     ELSE 1 + Cardinality(commas)]

\* the lists the walk opens in a state whose fallback state is accepting
ListsOpenedAccepting ==
    {i \in RefOpenings :
        /\ At(i) = "["
        /\ LET b == before_opening(query_executor, i, features)
           IN /\ b.handled
              /\ opened(b.e, i, features)
              /\ LET e1 == handle_opening(take_event(b.e).e, i, features)
                 IN is_accepting(automaton, fallback_state(automaton, e1.state))}

\* C32: for a list of a valid document opened in a state whose fallback state
\* is accepting, the reports of the run that fall on the list's own elements
\* (the first-element report, the reports of its commas and the reports of the
\* openings of its container elements) are as many as the list has elements.
C32_OneReportPerElement ==
    (Done /\ outcome = Ok /\ ValidJson /\ ~is_empty_query(automaton)) =>
        \A i \in ListsOpenedAccepting :
            LET l == RefList(i)
            IN Cardinality({k \in 1..Len(result) : result[k] \in l.direct}) = l.elements
\* a run has ended over a list of three elements, a container among them,
\* opened in a state whose fallback state is accepting
C32_Witness ==
    /\ Done /\ outcome = Ok /\ ValidJson /\ ~is_empty_query(automaton)
    /\ \E i \in ListsOpenedAccepting :
           LET l == RefList(i)
           IN /\ l.elements = 3
              /\ \E j \in l.direct : At(j) \in {"{", "["}
              /\ Cardinality({k \in 1..Len(result) : result[k] \in l.direct}) = 3

-----------------------------------------------------------------------------
(* The colon and comma masks *)

\* executor e with both masks on
unmasked(e) == [e EXCEPT !.colons_on = TRUE, !.commas_on = TRUE]

RECURSIVE run_unmasked(_, _)
\* run_and_exit with a classifier that yields every structural event: the
\* masks the handlers set are put back on before each iteration
run_unmasked(e, F) ==
    IF e.outcome.kind # "Running" THEN e
    ELSE run_unmasked(step(unmasked(e), F), F)

\* the reports and the outcome of every finished run over valid JSON are those
\* of the run fed every structural event
SameReportsUnmasked ==
    Done /\ ValidJson /\ ~is_empty_query(automaton) =>
        LET all == run_unmasked(query_executor, features)
        IN result = all.result /\ outcome = all.outcome

\* the Colon handler's tests of its lookahead (lines 206 and 224) answer the
\* same for the event the masked classifier yields and for the next structural
\* event of any kind
ColonTestsUnmasked ==
    (ValidJson /\ InLoop /\ take_event(Exec).ev.kind = "Colon") =>
        LET p == take_event(Exec).e.pos
            masked == ClassifierNext(p, colons_on, commas_on).ev
            any == ClassifierNext(p, TRUE, TRUE).ev
        IN /\ is_opening(masked) <=> is_opening(any)
           /\ is_closing(masked) <=> is_closing(any)

\* the same of the Comma handler's test (line 254), in a list or in any container
CommaTestUnmasked(lists_only) ==
    (ValidJson /\ InLoop /\ take_event(Exec).ev.kind = "Comma"
         /\ (lists_only => is_list)) =>
        LET p == take_event(Exec).e.pos
            masked == ClassifierNext(p, colons_on, commas_on).ev
            any == ClassifierNext(p, TRUE, TRUE).ev
        IN is_opening(masked) <=> is_opening(any)

\* the same of the tests the Opening handler makes on the lookahead of a list
\* (lines 329-341)
OpeningTestsUnmasked ==
    (ValidJson /\ InLoop /\ take_event(Exec).ev.kind = "Opening"
         /\ At(take_event(Exec).ev.idx) = "[") =>
        LET p == take_event(Exec).e.pos
            t == opening_target(Exec, take_event(Exec).ev.idx, features)
            masked == ClassifierNext(p, colons_on, TRUE).ev
            any == ClassifierNext(p, TRUE, TRUE).ev
        IN (t.read /\ ~t.skipped
                /\ is_accepting(automaton, fallback_state(automaton, state'))) =>
               /\ next_event' = masked
               /\ masked.kind = "Closing" <=> any.kind = "Closing"
               /\ masked.kind = "Comma" <=> any.kind = "Comma"

\* C33 as stated: on valid JSON the run reports the same offsets in the same
\* order, and ends the same way, as a run fed every structural event, colons and
\* commas never disabled; and every test a handler makes on its lookahead (an
\* Opening, a Closing, a Comma) answers the same for the event the masked
\* classifier yields and for the next structural event of any kind.
C33_MasksKeepEveryTest ==
    /\ []SameReportsUnmasked
    /\ [][ColonTestsUnmasked]_vars
    /\ [][CommaTestUnmasked(FALSE)]_vars
    /\ [][OpeningTestsUnmasked]_vars

\* C33, amended: the reports and the outcome are those of the run fed every
\* structural event, and the lookahead tests answer the same wherever they
\* decide a report or a skip: in the Colon handler, in the Opening handler of a
\* list, and in the Comma handler inside a list. Inside an object opened in a
\* list whose commas are on, the commas stay on with the colons off, and the
\* Comma handler's lookahead passes over the colon before a container.
C33_MasksKeepReports ==
    /\ []SameReportsUnmasked
    /\ [][ColonTestsUnmasked]_vars
    /\ [][CommaTestUnmasked(TRUE)]_vars
    /\ [][OpeningTestsUnmasked]_vars
\* a run without skips has ended over a document with a list and a comma
\* outside strings: a colon was reported, the comma was not, and the run fed
\* every event reports the same
C33_Witness ==
    /\ Done /\ outcome = Ok /\ ValidJson /\ ~is_empty_query(automaton)
    /\ ~features.tail_skip
    /\ \E k \in 1..Len(result) : At(result[k]) = ":"
    /\ \E j \in RefBrackets({","}) : j \notin SetOf(result)
    /\ \E j \in RefOpenings : At(j) = "["
    /\ result = run_unmasked(query_executor, features).result

-----------------------------------------------------------------------------
(* The unique-labels skip *)

\* the closing bracket of the container that encloses offset j, j not being a
\* bracket of that container itself: the first closing bracket after j before
\* which as many containers are open as are open around j; -1 when there is none
RefEnclosingClose(j) ==
    LET opens == RefOpenings
        closes == RefClosings
        before(k) == Cardinality({o \in opens : o < k})
                         - Cardinality({c \in closes : c < k})
        around == IF j \in closes THEN before(j) - 1 ELSE before(j)
        S == {c \in closes : c > j /\ before(c) = around}
    IN IF S = {} THEN -1 ELSE Least(S)

\* the executor right after a unique-labels skip made while handling the event
\* at offset idx with list-ness l: the lookahead slot holds the Closing of the
\* enclosing container, of the kind of l and at the offset skip returned, the
\* classifier stands after it, and the next iteration handles that Closing,
\* taking the depth down by one
SkippedToClose(idx, l, p) ==
    LET close == RefEnclosingClose(idx)
        after == step(Exec', features)
    IN /\ close # -1
       /\ next_event' = Closing(bracket_type(l), close)
       /\ next_event'.idx = Skip(p, opening_of(l)).idx
       /\ At(close) = closing_of(opening_of(l))
       /\ pos' = close + 1
       /\ take_event(Exec').ev = next_event'
       /\ after.depth = depth' - 1
       /\ after.outcome.kind \in {"Running", "Ok"}

\* C34: with unique-labels, after a Colon handled in a unitary state has
\* matched a label with a lookahead that is not a Closing, and after a Closing
\* has restored a unitary state from the stack, the executor has skipped to the
\* close of the enclosing container: the next event it processes is a
\* synthesized Closing of the kind of is_list at the offset skip returned, the
\* depth is decremented once for it, and no event before that close is
\* processed.
C34_UniqueSkipSynthesizesClosing ==
    /\ [][(ValidJson /\ InLoop /\ features.unique_labels
               /\ take_event(Exec).ev.kind = "Colon") =>
             LET taken == take_event(Exec)
                 idx == taken.ev.idx
                 trs == transitions(automaton, state)
                 lookahead == ClassifierNext(taken.e.pos, colons_on, commas_on)
             IN (/\ is_unitary(automaton, state)
                 /\ \E k \in 1..Len(trs) : is_match(idx, trs[k].label) = "match"
                 /\ ~is_closing(lookahead.ev) /\ ~is_opening(lookahead.ev)) =>
                    /\ depth' = depth /\ state' = state
                    /\ SkippedToClose(idx, is_list, lookahead.pos)]_vars
    /\ [][(ValidJson /\ InLoop /\ features.unique_labels
               /\ take_event(Exec).ev.kind = "Closing" /\ depth >= 1) =>
             LET taken == take_event(Exec)
                 idx == taken.ev.idx
             IN (/\ pop_if_at_or_below(stack, depth - 1)
                 /\ is_unitary(automaton, stack[Len(stack)].state)) =>
                    /\ depth' = depth - 1
                    /\ state' = stack[Len(stack)].state
                    /\ is_list' = stack[Len(stack)].is_list
                    /\ SkippedToClose(idx, is_list', taken.e.pos)]_vars
\* a Colon has matched in a unitary state and the rest of the object, which
\* holds a container, was skipped: the lookahead slot holds the Closing of the
\* object and an opening bracket lies between the reported colon and it
C34_Witness ==
    /\ outcome.kind = "Running" /\ ValidJson /\ features.unique_labels
    /\ is_unitary(automaton, state)
    /\ next_event.kind = "Closing"
    /\ next_event.idx = pos - 1
    /\ Len(result) >= 1
    /\ At(result[Len(result)]) = ":"
    /\ \E o \in RefOpenings : result[Len(result)] < o /\ o < next_event.idx
    /\ next_event.idx = RefEnclosingClose(result[Len(result)])

-----------------------------------------------------------------------------
(* Label matching *)

\* labels of length 0, 1 and 2
MatchedLabels == {<<>>, La, Lb, Laa}

\* C35: is_match(idx, label) looks at the nearest quote before idx: it answers
\* true iff the L + 2 bytes ending at that quote are the label between quotes
\* and the byte before them is not a backslash (or they start at offset 0); it
\* answers false, without an error, when fewer than L + 2 bytes end at that
\* quote; and it answers false for a candidate preceded by a backslash whatever
\* the length of the run of backslashes. The answer depends on the bytes alone,
\* which no step changes: it is compared once for each buffer, before the
\* first event is taken.
C35_IsMatchIsByteExact ==
    pos = 0 =>
    \A idx \in 1..Len(bytes), label \in MatchedLabels :
        LET quotes == {j \in 0..(idx - 1) : At(j) = QUOTE}
        IN quotes # {} =>
               LET q == CHOOSE j \in quotes : \A k \in quotes : k <= j
                   L == Len(label)
                   start == q - L - 1
                   quoted == <<QUOTE>> \o label \o <<QUOTE>>
                   r == is_match(idx, label)
               IN /\ r \in {"match", "nomatch"}
                  /\ r = "match" <=>
                         /\ start >= 0
                         /\ \A k \in 1..(L + 2) : At(start + k - 1) = quoted[k]
                         /\ start = 0 \/ At(start - 1) # BSLASH
                  /\ q + 1 < L + 2 => r = "nomatch"
                  /\ (start >= 1 /\ At(start - 1) = BSLASH) => r = "nomatch"
\* a walk has reported a colon at which the label a matches and the labels b
\* and the empty one do not
C35_Witness ==
    /\ Len(result) >= 1
    /\ At(result[1]) = ":"
    /\ result[1] >= 4
    /\ is_match(result[1], La) = "match"
    /\ is_match(result[1], Lb) = "nomatch"
    /\ is_match(result[1], <<>>) = "nomatch"

-----------------------------------------------------------------------------
(* Reports are made once *)

\* CountResult::report counts the calls; CountResult::get after the run
count(reports) == Len(reports)

\* C36: on valid JSON no offset is reported more than once within a run: the
\* reports are strictly increasing at every point of the run, and the count a
\* CountResult holds is the number of distinct offsets reported.
C36_NoDuplicateReports ==
    ValidJson =>
        /\ StrictlyIncreasing(result)
        /\ count(result) = Cardinality(SetOf(result))
\* a run has ended with four reports or more
C36_Witness ==
    /\ Done /\ outcome = Ok /\ ValidJson
    /\ Len(result) >= 4
    /\ StrictlyIncreasing(result)

-----------------------------------------------------------------------------
(* The one-slot lookahead *)

\* the classifier position right after event ev
after(ev) == IF ev.idx < Len(bytes) THEN ev.idx + 1 ELSE Len(bytes)

\* the Closing a unique-labels skip from classifier position p leaves as the
\* lookahead of executor e, and the position it leaves the classifier at
synthesized(e, p) ==
    LET sk == Skip(p, opening_of(e.is_list))
    IN [ev |-> Closing(bracket_type(e.is_list), sk.idx), pos |-> sk.pos]

\* the loop takes an event and a handler returns without error
Dispatches == InLoop /\ InLoop' /\ take_event(Exec).ev.kind # "None"

\* C37: the one-slot lookahead never loses or reorders an event. The event the
\* loop dispatches is the lookahead whenever one is held, and taking it empties
\* the slot and leaves the classifier right after it; whatever a handler pulls
\* from the classifier it leaves in the slot, except that the Colon handler's
\* unique-labels skip replaces what it pulled by the Closing it synthesizes;
\* and the events are dispatched in offset order.
C37_LookaheadKeepsEvents ==
    /\ [][Dispatches =>
            LET t == take_event(Exec)
            IN /\ t.e.next_event = NoEvent
               /\ t.e.pos = after(t.ev)
               /\ next_event.kind # "None" => (t.ev = next_event /\ t.e.pos = pos)]_vars
    /\ [][(Dispatches /\ take_event(Exec).ev.kind \in {"Colon", "Comma"}) =>
            LET t == take_event(Exec)
                la == ClassifierNext(t.e.pos, t.e.colons_on, t.e.commas_on)
                sy == synthesized(Exec', la.pos)
            IN \/ next_event' = la.ev /\ pos' = la.pos
               \/ /\ t.ev.kind = "Colon" /\ features.unique_labels
                  /\ ~is_opening(la.ev) /\ ~is_closing(la.ev)
                  /\ next_event' = sy.ev /\ pos' = sy.pos]_vars
    /\ [][(Dispatches /\ take_event(Exec).ev.kind = "Opening") =>
            LET t == take_event(Exec)
                la == ClassifierNext(t.e.pos, t.e.colons_on, TRUE)
            IN \/ next_event' = NoEvent /\ pos' = t.e.pos
               \/ /\ features.tail_skip
                  /\ next_event' = NoEvent /\ pos' = Skip(t.e.pos, At(t.ev.idx)).pos
               \/ /\ At(t.ev.idx) = "["
                  /\ next_event' = la.ev /\ pos' = la.pos]_vars
    /\ [][(Dispatches /\ take_event(Exec).ev.kind = "Closing") =>
            LET t == take_event(Exec)
                sy == synthesized(Exec', t.e.pos)
            IN \/ next_event' = NoEvent /\ pos' = t.e.pos
               \/ /\ features.unique_labels
                  /\ next_event' = sy.ev /\ pos' = sy.pos]_vars
    /\ [][(Dispatches /\ take_event(Exec').ev.kind # "None") =>
            /\ take_event(Exec').ev.idx >= take_event(Exec).ev.idx
            /\ ValidJson => take_event(Exec').ev.idx > take_event(Exec).ev.idx]_vars
\* the second comma of a list, pulled by the Comma handler at the first, is
\* held as the lookahead
C37_Witness ==
    /\ InLoop /\ ValidJson
    /\ next_event.kind = "Comma"
    /\ At(next_event.idx) = ","
    /\ pos = next_event.idx + 1
    /\ \E i \in 0..(next_event.idx - 1) :
          /\ At(i) = ","
          /\ ClassifierNext(i + 1, colons_on, commas_on).ev = next_event

====
